---- MODULE Spec2Model ----
(***************************************************************************)
(* A model of the graph-document synchronisation layer of TASE: the        *)
(* generic document mapper (BaseCollectionDocument / BaseVertex), the      *)
(* hashtag and thumbnail edge-diffing routines of the Audio vertex, and    *)
(* the playlist operations.  The database (ArangoDB) is modelled as the    *)
(* set of documents and edges it stores; every call to it is one atomic    *)
(* step that may fail where the code handles a failure.                    *)
(*                                                                         *)
(* The module holds one specification per subsystem.  Each specification   *)
(* moves only its own variables and leaves the others at their initial     *)
(* values.                                                                 *)
(***************************************************************************)
EXTENDS Integers, FiniteSets, Sequences, TLC

VARIABLES
    \* ---- hashtag subsystem (audio.py, _update_connected_hashtags) ----
    hasHashtagEdges,   \* keys of the HasHashtag edges attached to the audio
    hashtagVertices,   \* keys of the Hashtag vertices stored
    found,             \* what audio.find_hashtags() returns, or ValueErr
    edges0,            \* the edges attached before the first run started
    vertices0,         \* the Hashtag vertices stored before the first run
    hrun,              \* per run: position, locals and what it has done
    \* ---- thumbnail subsystem (thumbnail.py, update_connected_thumbnails) ----
    thumbEdges,        \* keys of the thumbnails the audio has a Has edge to
    thumbnails,        \* the thumbnails given to the call
    trun,              \* the call: position, locals and what it has done
    \* ---- document mapper (base_collection_document.py) ----
    store,             \* the collection: key -> stored document
    nextRev,           \* the next revision the database hands out
    oldDoc,            \* per client: the document read (old_doc), <<>> = None
    lastCall,          \* what the last call of create or update did
    wins,              \* revision -> successful updates made from a read of it
    docClass,          \* the class of the documents: the mapper in use
    \* ---- playlists (playlist.py) ----
    playlists,         \* the Playlist collection: key -> stored vertex
    hasEdges,          \* keys of the Has edges stored
    hadEdges,          \* keys of the Had edges stored
    playlistCall,      \* what the last call of a playlist method did
    \* ---- audios (audio.py) ----
    audios,            \* the Audio collection: the stored vertices
    audioEdges,        \* the edges that start at the audio of the message
    held,              \* per caller: the Audio object it holds, <<>> = None
    audioCall,         \* what the last call of an audio method did
    \* ---- queries and hits (query.py, audio.py, inline_query_handler.py) ----
    hitAudios,         \* hit -> keys of the Audio vertices it has a Has edge to
    queries,           \* the Query collection: the stored vertices
    hitVertices,       \* the Hit collection: the stored vertices, as created
    queryEdges,        \* the edges that start at the query
    hitCall,           \* what the last call of a query or hit method did
    inlineMessages,    \* the AudioInlineMessage collection: key -> inline_message_id
    interactions       \* the Interaction vertices, as created

hashtagVars == <<hasHashtagEdges, hashtagVertices, found, edges0, vertices0, hrun>>

thumbVars == <<thumbEdges, thumbnails, trun>>

docVars == <<store, nextRev, oldDoc, lastCall, wins, docClass>>

playlistVars == <<playlists, hasEdges, hadEdges, playlistCall>>

audioVars == <<audios, audioEdges, held, audioCall>>

hitVars == <<hitAudios, queries, hitVertices, queryEdges, hitCall,
             inlineMessages, interactions>>

vars == <<hashtagVars, thumbVars, docVars, playlistVars, audioVars, hitVars>>

----------------------------------------------------------------------------
(* Bounds *)

NumHashtagStrings == 3      \* distinct hashtag strings that occur in texts
MaxFound == 2               \* hashtags find_hashtags() returns at most
MaxAttached == 2            \* HasHashtag edges attached initially at most
NumThumbnails == 3          \* Thumbnail vertices stored
MaxRev == 3                 \* writes the database accepts (revisions handed out)
MaxAudios == 2   \* the longest audios list given to create_query
MaxInteractions == 2   \* the most Interaction vertices created

\* Mention sources and start indexes of the modelled texts.
MentionSources == {"MESSAGE_TEXT", "AUDIO_TITLE"}
StartIndexes == {0, 7}

----------------------------------------------------------------------------
(* The state of each subsystem before any of its operations has run *)

\* the calls of _update_connected_hashtags that may run on the audio
Runs == {1, 2}

IdleRun == [pc |-> "idle", current_edges |-> {}, vertices_mapping |-> {},
            removed_edges |-> {}, to_create_vertices |-> {}, to_create_edges |-> {},
            deleted |-> {}, created |-> {}, edge_failed |-> FALSE,
            vertex_failed |-> FALSE, delete_refused |-> FALSE]

\* find_hashtags() raising ValueError (invalid input data)
ValueErr == [raised |-> TRUE, hashtags |-> {}]

HashtagsOff ==
    /\ hasHashtagEdges = {} /\ hashtagVertices = {} /\ found = ValueErr
    /\ edges0 = {} /\ vertices0 = {}
    /\ hrun = [p \in Runs |-> IdleRun]

ThumbnailsOff ==
    /\ thumbEdges = {} /\ thumbnails = {} /\ trun = [pc |-> "off"]

\* the clients of the database
Clients == {1, 2}

NoCall == [op |-> "none"]

DocsOff ==
    /\ store = <<>> /\ nextRev = 1
    /\ oldDoc = [c \in Clients |-> <<>>]
    /\ lastCall = NoCall
    /\ wins = [r \in 1 .. MaxRev |-> 0]
    /\ docClass = "BaseCollectionDocument"

PlaylistsOff ==
    /\ playlists = <<>> /\ hasEdges = {} /\ hadEdges = {}
    /\ playlistCall = NoCall

\* the callers of the audio methods
Callers == {1, 2}

AudiosOff ==
    /\ audios = <<>> /\ audioEdges = {}
    /\ held = [c \in Callers |-> <<>>]
    /\ audioCall = NoCall

\* the hits whose linked audios are asked for
HitKeys == {1, 2}

HitsOff ==
    /\ hitAudios = [hit \in HitKeys |-> {}]
    /\ queries = <<>> /\ hitVertices = <<>> /\ queryEdges = {}
    /\ inlineMessages = <<>> /\ interactions = <<>>
    /\ hitCall = NoCall

----------------------------------------------------------------------------
(* Hashtags of an audio *)

HashtagStrings == 1 .. NumHashtagStrings

\* Hashtag.parse_key normalises the string: the strings 2k-1 and 2k are two
\* spellings of one hashtag, whose key is k.
ParseKey(hashtag_string) == (hashtag_string + 1) \div 2

HashtagKeys == {ParseKey(s) : s \in HashtagStrings}

\* HasHashtag.parse_has_hashtag_key: one key per audio, hashtag key, mention
\* source and start index (a single audio is modelled).
ParseHasHashtagKey(hashtag_key, mention_source, start_index) ==
    <<hashtag_key, mention_source, start_index>>

EdgeKeys == {ParseHasHashtagKey(k, s, i) :
                k \in HashtagKeys, s \in MentionSources, i \in StartIndexes}

\* The results find_hashtags() can give: tuples (hashtag string, start index,
\* mention source), at most one hashtag starting at one place of one text.
FoundLists ==
    {[raised |-> FALSE, hashtags |-> f] :
        f \in {g \in SUBSET (HashtagStrings \X StartIndexes \X MentionSources) :
                /\ Cardinality(g) <= MaxFound
                /\ \A a \in g : \A b \in g : (a[2] = b[2] /\ a[3] = b[3]) => a = b}}

\* new_vertices and new_edges of the loop over the found hashtags
NewVertices(hashtags) == {ParseKey(h[1]) : h \in hashtags}
NewEdges(hashtags) == {ParseHasHashtagKey(ParseKey(h[1]), h[3], h[2]) : h \in hashtags}

\* current_vertices: the hashtags the current edges lead to
CurrentVertices(current_edges) == {e[1] : e \in current_edges}

\* A slip in the difference: every current edge counts as removed.
RemovedEdges_All(current_edges, new_edges) == current_edges

\* A slip in the difference: the operands the wrong way round.
ToCreateEdges_Swapped(current_edges, new_edges) == current_edges \ new_edges

\* A slip in the difference: the vertices no longer referred to.
ToCreateVertices_Swapped(current_vertices, new_vertices) == current_vertices \ new_vertices

\* the differences between the current and the new state
RemovedEdges(current_edges, new_edges) == current_edges \ new_edges

ToCreateVertices(current_vertices, new_vertices) == new_vertices \ current_vertices

ToCreateEdges(current_edges, new_edges) == new_edges \ current_edges

InitHashtags ==
    /\ hasHashtagEdges \in {e \in SUBSET EdgeKeys : Cardinality(e) <= MaxAttached}
    /\ \E extra \in SUBSET HashtagKeys :
          hashtagVertices = CurrentVertices(hasHashtagEdges) \cup extra
    /\ found \in FoundLists \cup {ValueErr}
    /\ edges0 = hasHashtagEdges
    /\ vertices0 = hashtagVertices
    /\ hrun = [p \in Runs |-> IdleRun]
    /\ ThumbnailsOff
    /\ DocsOff
    /\ PlaylistsOff
    /\ AudiosOff
    /\ HitsOff

\* find_hashtags(), get_audio_hashtags_with_edges() and the computation of
\* the differences; a ValueError of find_hashtags() ends the call.
HStart(p) ==
    /\ hrun[p].pc = "idle"
    /\ IF found.raised
       THEN hrun' = [hrun EXCEPT ![p].pc = "returned"]
       ELSE hrun' = [hrun EXCEPT
                ![p].pc = "running",
                ![p].current_edges = hasHashtagEdges,
                ![p].vertices_mapping = CurrentVertices(hasHashtagEdges),
                ![p].removed_edges = RemovedEdges(hasHashtagEdges, NewEdges(found.hashtags)),
                ![p].to_create_vertices =
                    ToCreateVertices(CurrentVertices(hasHashtagEdges), NewVertices(found.hashtags)),
                ![p].to_create_edges = ToCreateEdges(hasHashtagEdges, NewEdges(found.hashtags))]
    /\ UNCHANGED <<hasHashtagEdges, hashtagVertices, found, edges0, vertices0, thumbVars, docVars, playlistVars, audioVars, hitVars>>

\* one round of "for edge_key in removed_edges": the deletion may fail, which
\* is logged only
HDeleteEdge(p) ==
    /\ hrun[p].pc = "running"
    /\ \E edge_key \in hrun[p].removed_edges :
        \E ok \in BOOLEAN :
          LET done == ok /\ edge_key \in hasHashtagEdges IN
          /\ hasHashtagEdges' = IF done THEN hasHashtagEdges \ {edge_key}
                                ELSE hasHashtagEdges
          /\ hrun' = [hrun EXCEPT
                ![p].removed_edges = @ \ {edge_key},
                ![p].deleted = @ \cup {edge_key},
                ![p].edge_failed = @ \/ ~done,
                ![p].delete_refused = @ \/ (~ok /\ edge_key \in hasHashtagEdges)]
    /\ UNCHANGED <<hashtagVertices, found, edges0, vertices0, thumbVars, docVars, playlistVars, audioVars, hitVars>>

\* one round of "for hashtag_key in to_create_vertices": get_or_create_hashtag
\* gives the vertex, or None
HCreateVertex(p) ==
    /\ hrun[p].pc = "running"
    /\ hrun[p].removed_edges = {}
    /\ \E hashtag_key \in hrun[p].to_create_vertices :
        \E ok \in BOOLEAN :
          /\ hashtagVertices' = IF ok THEN hashtagVertices \cup {hashtag_key}
                                ELSE hashtagVertices
          /\ hrun' = [hrun EXCEPT
                ![p].to_create_vertices = @ \ {hashtag_key},
                ![p].vertices_mapping = IF ok THEN @ \cup {hashtag_key} ELSE @,
                ![p].vertex_failed = @ \/ ~ok]
    /\ UNCHANGED <<hasHashtagEdges, found, edges0, vertices0, thumbVars, docVars, playlistVars, audioVars, hitVars>>

\* one round of "for edge_key in to_create_edges": an edge whose hashtag
\* vertex is not known is skipped; get_or_create_edge giving None raises
\* EdgeCreationFailed
HCreateEdge(p) ==
    /\ hrun[p].pc = "running"
    /\ hrun[p].removed_edges = {}
    /\ hrun[p].to_create_vertices = {}
    /\ \E edge_key \in hrun[p].to_create_edges :
        IF edge_key[1] \in hrun[p].vertices_mapping
        THEN \E ok \in BOOLEAN :
              /\ hasHashtagEdges' = IF ok THEN hasHashtagEdges \cup {edge_key}
                                    ELSE hasHashtagEdges
              /\ hrun' = [hrun EXCEPT
                    ![p].to_create_edges = @ \ {edge_key},
                    ![p].created = @ \cup {edge_key},
                    ![p].edge_failed = @ \/ ~ok,
                    ![p].pc = IF ok THEN @ ELSE "raised"]
        ELSE /\ hrun' = [hrun EXCEPT ![p].to_create_edges = @ \ {edge_key}]
             /\ UNCHANGED hasHashtagEdges
    /\ UNCHANGED <<hashtagVertices, found, edges0, vertices0, thumbVars, docVars, playlistVars, audioVars, hitVars>>

\* the end of the function
HReturn(p) ==
    /\ hrun[p].pc = "running"
    /\ hrun[p].removed_edges = {}
    /\ hrun[p].to_create_vertices = {}
    /\ hrun[p].to_create_edges = {}
    /\ hrun' = [hrun EXCEPT ![p].pc = "returned"]
    /\ UNCHANGED <<hasHashtagEdges, hashtagVertices, found, edges0, vertices0, thumbVars, docVars, playlistVars, audioVars, hitVars>>

UpdateConnectedHashtags(p) ==
    \/ HStart(p)
    \/ HDeleteEdge(p)
    \/ HCreateVertex(p)
    \/ HCreateEdge(p)
    \/ HReturn(p)

\* One call of _update_connected_hashtags on the audio.
NextHashtags == UpdateConnectedHashtags(1)

SpecHashtags == InitHashtags /\ [][NextHashtags]_vars

\* Two calls on the same audio, whose coroutines interleave at the awaited
\* database calls.  The audio has three hashtags at most (two of them
\* spellings of one hashtag), and one edge that no text of it accounts for.
RunHashtags == {<<1, 0, "MESSAGE_TEXT">>, <<2, 0, "AUDIO_TITLE">>, <<3, 7, "MESSAGE_TEXT">>}

StaleEdge == ParseHasHashtagKey(2, "AUDIO_TITLE", 7)

InitHashtagRuns ==
    /\ hasHashtagEdges \in SUBSET (NewEdges(RunHashtags) \cup {StaleEdge})
    /\ \E extra \in SUBSET NewVertices(RunHashtags) :
          hashtagVertices = CurrentVertices(hasHashtagEdges) \cup extra
    /\ found \in {[raised |-> FALSE, hashtags |-> f] : f \in SUBSET RunHashtags}
                    \cup {ValueErr}
    /\ edges0 = hasHashtagEdges
    /\ vertices0 = hashtagVertices
    /\ hrun = [p \in Runs |-> IdleRun]
    /\ ThumbnailsOff
    /\ DocsOff
    /\ PlaylistsOff
    /\ AudiosOff
    /\ HitsOff

NextHashtagRuns == \E p \in Runs : UpdateConnectedHashtags(p)

SpecHashtagRuns == InitHashtagRuns /\ [][NextHashtagRuns]_vars

----------------------------------------------------------------------------
(* Thumbnails of an audio: update_connected_thumbnails *)

ThumbnailKeys == 1 .. NumThumbnails

\* Has.parse_key(source_vertex, thumbnail): one edge key per thumbnail of the
\* one audio modelled
HasThumbnailKey(thumbnail_key) == <<"audio", thumbnail_key>>

Unpacked == [raised |-> TRUE, keys |-> {}]

\* current_edges = {edge.key for _, edge, in current_vertices}: the loop runs
\* over the set of thumbnail keys, which are strings, not over the list of
\* (thumbnail, edge) pairs.  Unpacking a key into two names raises ValueError
\* (or, for a key of two characters, reading .key of a character raises
\* AttributeError); only an empty set gives a value.
CurrentEdgesOf(current_vertices) ==
    IF current_vertices = {} THEN [raised |-> FALSE, keys |-> {}] ELSE Unpacked

IdleThumbRun == [pc |-> "idle", current_edges |-> {}, removed_edges |-> {},
                 to_create_edges |-> {}, deleted |-> {}, created |-> {},
                 edge_failed |-> FALSE]

InitThumbnails ==
    /\ thumbEdges \in SUBSET ThumbnailKeys
    /\ thumbnails \in SUBSET ThumbnailKeys
    /\ trun = IdleThumbRun
    /\ HashtagsOff
    /\ DocsOff
    /\ PlaylistsOff
    /\ AudiosOff
    /\ HitsOff

\* get_audio_thumbnails_with_edges() and the computation of the differences
TStart ==
    /\ trun.pc = "idle"
    /\ LET current_vertices == thumbEdges
           current_edges == CurrentEdgesOf(current_vertices)
           new_edges == {HasThumbnailKey(t) : t \in thumbnails}
       IN IF current_edges.raised
          THEN trun' = [trun EXCEPT !.pc = "raised"]
          ELSE trun' = [trun EXCEPT
                  !.pc = "running",
                  !.current_edges = current_edges.keys,
                  !.removed_edges = current_edges.keys \ new_edges,
                  !.to_create_edges = new_edges \ current_edges.keys]
    /\ UNCHANGED <<thumbEdges, thumbnails, hashtagVars, docVars, playlistVars, audioVars, hitVars>>

\* one round of "for edge_key in removed_edges" (a failed deletion is logged
\* only) or, once that loop is over, of "for edge_key in to_create_edges"
\* (get_or_create_edge giving nothing raises EdgeCreationFailed)
TEdgeLoops ==
    /\ trun.pc = "running"
    /\ IF trun.removed_edges # {}
       THEN \E edge_key \in trun.removed_edges : \E ok \in BOOLEAN :
              /\ thumbEdges' = IF ok THEN thumbEdges \ {edge_key[2]} ELSE thumbEdges
              /\ trun' = [trun EXCEPT !.removed_edges = @ \ {edge_key},
                                      !.deleted = @ \cup {edge_key},
                                      !.edge_failed = @ \/ ~ok]
       ELSE \E edge_key \in trun.to_create_edges : \E ok \in BOOLEAN :
              /\ thumbEdges' = IF ok THEN thumbEdges \cup {edge_key[2]} ELSE thumbEdges
              /\ trun' = [trun EXCEPT !.to_create_edges = @ \ {edge_key},
                                      !.created = @ \cup {edge_key},
                                      !.edge_failed = @ \/ ~ok,
                                      !.pc = IF ok THEN @ ELSE "raised"]
    /\ UNCHANGED <<thumbnails, hashtagVars, docVars, playlistVars, audioVars, hitVars>>

\* the end of the function
TReturn ==
    /\ trun.pc = "running"
    /\ trun.removed_edges = {} /\ trun.to_create_edges = {}
    /\ trun' = [trun EXCEPT !.pc = "returned"]
    /\ UNCHANGED <<thumbEdges, thumbnails, hashtagVars, docVars, playlistVars, audioVars, hitVars>>

NextThumbnails == TStart \/ TEdgeLoops \/ TReturn

SpecThumbnails == InitThumbnails /\ [][NextThumbnails]_vars

----------------------------------------------------------------------------
(* The document mapper: create and update of BaseCollectionDocument, and   *)
(* of the older BaseVertex of graph_models                                 *)

\* None, for id, key and rev (Optional[str]); keys and revisions are >= 1
None == 0

\* the document keys of the collection
Keys == {1, 2}

\* the members of an Enum-typed field (ChatType) and the values of another
Kinds == {"ChatType.CHANNEL", "ChatType.BOT"}

\* attr_value.value of an Enum member
EnumValue(member) == IF member = "ChatType.CHANNEL" THEN "channel" ELSE "bot"
\* pydantic's validation of a stored value back to the member
EnumMember(value) == IF value \in {"channel", "ChatType.CHANNEL"}
                     THEN "ChatType.CHANNEL" ELSE "ChatType.BOT"

\* _base_do_not_update_fields and the class's _extra_do_not_update_fields
BaseDoNotUpdateFields == {"created_at"}
ExtraDoNotUpdateFields == {"meta"}

\* _to_graph_db_mapping.keys()
MetadataFields == {"id", "key", "rev"}

\* BaseCollectionDocument.to_graph(): self.dict(), then ToGraphEnumConverter
\* (an Enum member becomes its value), then ToGraphAttributeMapper (id, key,
\* rev become _id, _key, _rev)
ToGraph(d) ==
    [_id |-> d.id, _key |-> d.key, _rev |-> d.rev,
     created_at |-> d.created_at, kind |-> EnumValue(d.kind), meta |-> d.meta]

\* BaseVertex._to_graph(): self.dict() with id, key, rev renamed, a falsy one
\* becoming None
VertexToGraph(d) ==
    [_id |-> d.id, _key |-> d.key, _rev |-> d.rev,
     created_at |-> d.created_at, kind |-> d.kind, meta |-> d.meta]

\* from_graph() / parse_from_graph(): the attributes renamed, then cls(**doc)
FromGraph(g) ==
    [id |-> g._id, key |-> g._key, rev |-> g._rev,
     created_at |-> g.created_at, kind |-> EnumMember(g.kind), meta |-> g.meta]

\* A slip in _update_metadata: the revision is not taken over.
UpdateMetadata_NoRev(d, metadata) ==
    [d EXCEPT !.id = metadata._id, !.key = metadata._key]

\* _update_metadata(metadata) / _update_from_metadata(metadata): id, key and
\* rev from the returned metadata
UpdateMetadata(d, metadata) ==
    [d EXCEPT !.id = metadata._id, !.key = metadata._key, !.rev = metadata._rev]

\* A slip in _update_metadata_from_old_document: the revision is left out.
UpdateMetadataFromOldDocument_NoRev(d, old_doc) ==
    [d EXCEPT !.id = old_doc.id, !.key = old_doc.key]

\* _update_metadata_from_old_document(old_doc) / _update_metadata_from_vertex:
\* id, key and rev of old_doc
UpdateMetadataFromOldDocument(d, old_doc) ==
    [f \in DOMAIN d |-> IF f \in MetadataFields THEN old_doc[f] ELSE d[f]]

\* A slip in _update_non_updatable_fields: the class's extra fields are skipped.
UpdateNonUpdatableFields_BaseOnly(d, old_doc) ==
    [f \in DOMAIN d |-> IF f \in BaseDoNotUpdateFields THEN old_doc[f] ELSE d[f]]

\* _update_non_updatable_fields(old_doc): created_at and the extra fields of
\* old_doc
UpdateNonUpdatableFields(d, old_doc) ==
    [f \in DOMAIN d |->
        IF f \in BaseDoNotUpdateFields \cup ExtraDoNotUpdateFields
        THEN old_doc[f] ELSE d[f]]

\* the document as the collection keeps it and returns it to a query
Stored(g, rev) == [g EXCEPT !._id = g._key, !._rev = rev]

\* the metadata an insert or update returns
Metadata(g) == [_id |-> g._id, _key |-> g._key, _rev |-> g._rev]

\* What _collection.insert raises: the request may fail for any reason
\* (fault), and a key already taken violates the unique constraint.
InsertError(g, fault) ==
    IF fault # "none" THEN fault
    ELSE IF g._key \in DOMAIN store THEN "DocumentInsertError"
    ELSE "none"

\* What _collection.update raises (check_rev is on by default): the document
\* must exist and, when the payload carries a revision, it must be the stored
\* one.
UpdateError(g, fault) ==
    IF fault # "none" THEN fault
    ELSE IF g._key \notin DOMAIN store THEN "DocumentUpdateError"
    ELSE IF g._rev # None /\ store[g._key]._rev # g._rev THEN "DocumentRevisionError"
    ELSE "none"

\* the except clauses of create and of update
CreateCatches == {"DocumentInsertError", "Exception"}
UpdateCatches == {"DocumentUpdateError", "DocumentRevisionError", "Exception"}

\* the ways a request to the database fails by itself
Faults == {"none", "Exception"}

InitDocs ==
    /\ store = <<>> /\ nextRev = 1
    /\ oldDoc = [c \in Clients |-> <<>>]
    /\ lastCall = NoCall
    /\ wins = [r \in 1 .. MaxRev |-> 0]
    /\ docClass \in {"BaseCollectionDocument", "BaseVertex"}
    /\ HashtagsOff
    /\ ThumbnailsOff
    /\ PlaylistsOff
    /\ AudiosOff
    /\ HitsOff

\* The document objects a caller may pass to create: built by a parse()
\* method, with a key and neither id nor revision (update may change the
\* kind later).
CreateInputs ==
    {[id |-> None, key |-> k, rev |-> None, created_at |-> 1,
      kind |-> "ChatType.CHANNEL", meta |-> "m0"] : k \in Keys}

\* The document objects a caller may pass to update: built anew by a parse()
\* method (no id, no revision, a later time, other metadata), or a copy of a
\* document read at some time (its id and some revision).
UpdateInputs ==
    {[id |-> IF read THEN k ELSE None, key |-> k,
      rev |-> IF read THEN MaxRev ELSE None,
      created_at |-> IF read THEN 1 ELSE 2, kind |-> kd,
      meta |-> IF read THEN "m0" ELSE "m1"] :
        k \in Keys, kd \in Kinds, read \in BOOLEAN}

\* the object differs from old_doc in every field update takes from old_doc
CarriesOther(d, old_doc) ==
    \A f \in MetadataFields \cup BaseDoNotUpdateFields \cup ExtraDoNotUpdateFields :
        d[f] # old_doc[f]

\* find_by_key(key): the stored document as an object, or None
DocFindByKey(c) ==
    /\ \E k \in Keys :
        oldDoc' = [oldDoc EXCEPT ![c] =
                     IF k \in DOMAIN store THEN <<FromGraph(store[k])>> ELSE <<>>]
    /\ UNCHANGED <<store, nextRev, lastCall, wins, docClass, hashtagVars, thumbVars, playlistVars, audioVars, hitVars>>

\* BaseCollectionDocument.create(doc), doc given as <<>> (None) or <<object>>;
\* BaseVertex.create(self) has no None case
DocCreate ==
    /\ \E arg \in {<<>>} \cup {<<d>> : d \in CreateInputs} :
       IF arg = <<>>
       THEN /\ docClass = "BaseCollectionDocument"
            /\ lastCall' = [op |-> "create", arg |-> <<>>, db_called |-> FALSE,
                            inserted |-> FALSE, raised |-> FALSE,
                            metadata |-> <<>>, store_changed |-> FALSE,
                            returned |-> <<>>, successful |-> FALSE]
            /\ UNCHANGED <<store, nextRev>>
       ELSE \E fault \in Faults :
            LET d == arg[1]
                g == IF docClass = "BaseVertex" THEN VertexToGraph(d) ELSE ToGraph(d)
                exc == InsertError(g, fault)
                inserted == exc = "none"
                new == Stored(g, nextRev)
                after == IF inserted THEN UpdateMetadata(d, Metadata(new)) ELSE d
            IN /\ inserted => nextRev <= MaxRev
               /\ store' = IF inserted THEN (g._key :> new) @@ store ELSE store
               /\ nextRev' = IF inserted THEN nextRev + 1 ELSE nextRev
               /\ lastCall' = [op |-> "create", arg |-> arg, db_called |-> TRUE,
                               inserted |-> inserted,
                               raised |-> (~inserted /\ exc \notin CreateCatches),
                               metadata |-> IF inserted THEN <<Metadata(new)>> ELSE <<>>,
                               store_changed |-> (store' # store),
                               returned |-> <<after>>, successful |-> inserted]
    /\ UNCHANGED <<oldDoc, wins, docClass, hashtagVars, thumbVars, playlistVars, audioVars, hitVars>>

\* BaseCollectionDocument.update(old_doc, doc) and BaseVertex.update(db,
\* vertex) (where self is the old document), with the client's last read as
\* the old document and doc given as <<>> (None) or <<object>>
DocUpdate(c) ==
    /\ docClass = "BaseVertex" => oldDoc[c] # <<>>
    /\ \E arg \in {<<>>} \cup {<<d>> : d \in UpdateInputs} :
       IF arg = <<>>
       THEN \* not an instance of the document class: raise Exception
            /\ lastCall' = [op |-> "update", raised |-> TRUE, written |-> FALSE]
            /\ UNCHANGED <<store, nextRev, wins, oldDoc>>
       ELSE IF oldDoc[c] = <<>>
       THEN /\ lastCall' = [op |-> "update", raised |-> FALSE, written |-> FALSE,
                            successful |-> FALSE, returned |-> <<>>]
            /\ UNCHANGED <<store, nextRev, wins, oldDoc>>
       ELSE \E fault \in Faults :
            LET old == oldDoc[c][1]
                legacy == docClass = "BaseVertex"
                d == IF legacy
                     THEN UpdateMetadataFromOldDocument(arg[1], old)
                     ELSE UpdateNonUpdatableFields(
                              UpdateMetadataFromOldDocument(arg[1], old), old)
                g == IF legacy THEN VertexToGraph(d) ELSE ToGraph(d)
                exc == UpdateError(g, fault)
                accepted == exc = "none"
                new == Stored(g, nextRev)
            IN /\ accepted => nextRev <= MaxRev
               /\ store' = IF accepted THEN [store EXCEPT ![g._key] = new] ELSE store
               /\ nextRev' = IF accepted THEN nextRev + 1 ELSE nextRev
               /\ oldDoc' = IF accepted /\ legacy
                            THEN [oldDoc EXCEPT ![c] = <<UpdateMetadata(old, Metadata(new))>>]
                            ELSE oldDoc
               /\ wins' = IF accepted /\ old.rev \in DOMAIN wins
                          THEN [wins EXCEPT ![old.rev] = @ + 1] ELSE wins
               /\ lastCall' = [op |-> "update",
                               raised |-> (~accepted /\ exc \notin UpdateCatches),
                               written |-> TRUE,
                               old |-> old, kind_before |-> arg[1].kind,
                               carried_other |-> CarriesOther(arg[1], old),
                               payload |-> g,
                               stale |-> (old.key \in DOMAIN store
                                          /\ store[old.key]._rev # old.rev),
                               store_changed |-> (store' # store),
                               successful |-> accepted]
    /\ UNCHANGED <<docClass, hashtagVars, thumbVars, playlistVars, audioVars, hitVars>>

NextDocs ==
    \/ DocCreate
    \/ \E c \in Clients : DocFindByKey(c) \/ DocUpdate(c)

SpecDocs == InitDocs /\ [][NextDocs]_vars

----------------------------------------------------------------------------
(* Playlists of a user *)

Users == {1, 2}
\* the keys generate_token_urlsafe() can return
PlaylistKeys == {1, 2}
Titles == {"Favorite", "A"}
Timestamps == {1, 2}

\* The vertices of the graph are named by collection and key.
UserV(user) == <<"users", user>>
PlaylistV(key) == <<"playlists", key>>
AudioV(key) == <<"audios", key>>

\* The key of an edge is a function of its two ends (Has.parse_key): the
\* collection holds at most one edge per pair of ends.
EdgeKey(from_vertex, to_vertex) == <<from_vertex, to_vertex>>

\* The hits stored, named by their download url, and the audio linked with
\* each: "ok" and "ok2" have an audio file, "doc" has an audio that is not a
\* file, "orphan" has no audio; no hit has the download url "nohit".
Hits == {"ok", "ok2", "doc", "orphan"}
Urls == Hits \cup {"nohit"}
NoUrl == "None"
NoHit == "None"
NoAudio == [key |-> None, audio_type |-> "None"]

find_hit_by_download_url(download_url) ==
    IF download_url \in Hits THEN download_url ELSE NoHit

get_audio_from_hit(hit) ==
    CASE hit = "ok" -> [key |-> 1, audio_type |-> "AUDIO_FILE"]
      [] hit = "ok2" -> [key |-> 2, audio_type |-> "AUDIO_FILE"]
      [] hit = "doc" -> [key |-> 3, audio_type |-> "DOCUMENT"]
      [] OTHER -> NoAudio

\* The playlists a 1..1 outbound traversal from the user over Has edges visits.
ConnectedPlaylists(user) ==
    {key \in DOMAIN playlists : EdgeKey(UserV(user), PlaylistV(key)) \in hasEdges}

\* "limit 1 return v": any one of the matching vertices, None when none matches.
LimitOne(matching) == IF matching = {} THEN {None} ELSE matching

\* the filter of _get_user_playlist_by_title_query and of the by-key query
SoftDeletedFilter(v, filter_out) == v.is_soft_deleted = (~filter_out)

get_user_playlist_by_title(user, title, filter_out_soft_deleted) ==
    LimitOne({key \in ConnectedPlaylists(user) :
                 /\ SoftDeletedFilter(playlists[key], filter_out_soft_deleted)
                 /\ playlists[key].title = title})

get_user_playlist_by_key(user, playlist_key, filter_out_soft_deleted) ==
    LimitOne({key \in ConnectedPlaylists(user) :
                 /\ SoftDeletedFilter(playlists[key], filter_out_soft_deleted)
                 /\ key = playlist_key})

get_user_favorite_playlist(user) ==
    LimitOne({key \in ConnectedPlaylists(user) : playlists[key].is_favorite = TRUE})

\* get_or_create_edge: the edge with the key of the two ends if it is stored,
\* else a new edge unless the insertion fails.
EdgeOutcomes == {"edge", "None"}
HadOutcomes == EdgeOutcomes \cup {"InvalidVertex"}

get_or_create_edge(edges, key, outcome) ==
    IF key \in edges \/ outcome # "edge" THEN edges ELSE edges \cup {key}

InitPlaylists ==
    /\ playlists = <<>> /\ hasEdges = {} /\ hadEdges = {}
    /\ playlistCall = NoCall
    /\ HashtagsOff
    /\ ThumbnailsOff
    /\ DocsOff
    /\ AudiosOff
    /\ HitsOff

\* a method returns a playlist (or None) without writing
ReturnPlaylist(op, user, ret) ==
    /\ playlistCall' = [op |-> op, ret |-> ret]
    /\ UNCHANGED <<playlists, hasEdges, hadEdges>>

create_playlist(op, user, title, is_favorite) ==
    \E outcome \in {"insert_failed"} \cup EdgeOutcomes :
        LET key == Len(playlists) + 1
            v == [title |-> title, is_favorite |-> is_favorite,
                  is_soft_deleted |-> FALSE, deleted_at |-> None]
            has_key == EdgeKey(UserV(user), PlaylistV(key))
        IN  /\ outcome # "insert_failed" => key \in PlaylistKeys
            /\ playlists' = IF outcome = "insert_failed" THEN playlists
                            ELSE Append(playlists, v)
            /\ hasEdges' = IF outcome = "insert_failed" THEN hasEdges
                           ELSE get_or_create_edge(hasEdges, has_key, outcome)
            /\ playlistCall' = [op |-> op,
                                ret |-> IF has_key \in hasEdges' THEN key ELSE None]
            /\ UNCHANGED hadEdges

get_or_create_playlist(op, user, title, is_favorite) ==
    \E user_fav_playlist \in get_user_favorite_playlist(user),
       playlist \in get_user_playlist_by_title(user, title, TRUE) :
        IF is_favorite /\ user_fav_playlist # None
        THEN ReturnPlaylist(op, user, user_fav_playlist)
        ELSE IF ~is_favorite /\ title = "Favorite"
        THEN ReturnPlaylist(op, user, None)
        ELSE IF playlist # None
        THEN ReturnPlaylist(op, user, playlist)
        ELSE create_playlist(op, user, title, is_favorite)

CreatePlaylist ==
    /\ \E user \in Users, title \in Titles, is_favorite \in BOOLEAN :
          create_playlist("create_playlist", user, title, is_favorite)
    /\ UNCHANGED <<hashtagVars, thumbVars, docVars, audioVars, hitVars>>

GetOrCreatePlaylist ==
    /\ \E user \in Users, title \in Titles, is_favorite \in BOOLEAN :
          get_or_create_playlist("get_or_create_playlist", user, title, is_favorite)
    /\ UNCHANGED <<hashtagVars, thumbVars, docVars, audioVars, hitVars>>

CreateFavoritePlaylist ==
    /\ \E user \in Users :
          get_or_create_playlist("create_favorite_playlist", user, "Favorite", TRUE)
    /\ UNCHANGED <<hashtagVars, thumbVars, docVars, audioVars, hitVars>>

GetOrCreateFavoritePlaylist ==
    /\ \E user \in Users :
          \E playlist \in get_user_favorite_playlist(user) :
              IF playlist = None
              THEN get_or_create_playlist("get_or_create_favorite_playlist", user,
                                          "Favorite", TRUE)
              ELSE ReturnPlaylist("get_or_create_favorite_playlist", user, playlist)
    /\ UNCHANGED <<hashtagVars, thumbVars, docVars, audioVars, hitVars>>

\* has_edge = Has.get(Has.parse_key(user, playlist)): the user owns the playlist
OwnsPlaylist_Anyone(user, playlist_key) == TRUE

OwnsPlaylist(user, playlist_key) ==
    EdgeKey(UserV(user), PlaylistV(playlist_key)) \in hasEdges

RemovePlaylist ==
    /\ \E user \in Users, playlist_key \in PlaylistKeys, deleted_at \in Timestamps :
          \E had_outcome \in HadOutcomes, is_has_deleted, is_playlist_deleted \in BOOLEAN :
              LET has_key == EdgeKey(UserV(user), PlaylistV(playlist_key))
                  exists == playlist_key \in DOMAIN playlists
                  owns == exists /\ OwnsPlaylist(user, playlist_key)
                  had_after == IF owns /\ had_outcome # "InvalidVertex"
                               THEN get_or_create_edge(hadEdges, has_key, had_outcome)
                               ELSE hadEdges
                  had_edge == owns /\ had_outcome # "InvalidVertex" /\ has_key \in had_after
              IN  /\ hadEdges' = had_after
                  /\ hasEdges' = IF had_edge /\ is_has_deleted
                                 THEN hasEdges \ {has_key} ELSE hasEdges
                  /\ playlists' = IF had_edge /\ is_playlist_deleted
                                  THEN [playlists EXCEPT ![playlist_key].is_soft_deleted = TRUE,
                                                         ![playlist_key].deleted_at = deleted_at]
                                  ELSE playlists
                  /\ playlistCall' =
                        [op |-> "remove_playlist",
                         raised |-> IF exists THEN "None" ELSE "PlaylistDoesNotExists",
                         existed |-> exists,
                         owned |-> has_key \in hasEdges,
                         ret |-> had_edge /\ is_has_deleted /\ is_playlist_deleted,
                         changed |-> <<playlists', hasEdges', hadEdges'>>
                                        # <<playlists, hasEdges, hadEdges>>,
                         removed |-> /\ exists
                                     /\ has_key \in hadEdges'
                                     /\ has_key \notin hasEdges'
                                     /\ playlists'[playlist_key].is_soft_deleted
                                     /\ playlists'[playlist_key].deleted_at = deleted_at]
    /\ UNCHANGED <<hashtagVars, thumbVars, docVars, audioVars, hitVars>>

\* what a query of a user's playlist found, next to what it could have found
QueryCall(op, user, filter_out, matching, ret) ==
    [op |-> op, filter_out |-> filter_out,
     any_live |-> \E key \in matching : ~playlists[key].is_soft_deleted,
     any_soft_deleted |-> \E key \in matching : playlists[key].is_soft_deleted,
     found |-> ret # None,
     found_matching |-> ret \in matching,
     found_soft_deleted |-> ret # None /\ playlists[ret].is_soft_deleted]

GetUserPlaylistByTitle ==
    /\ \E user \in Users, title \in Titles, filter_out_soft_deleted \in BOOLEAN :
          \E ret \in get_user_playlist_by_title(user, title, filter_out_soft_deleted) :
              playlistCall' =
                  QueryCall("get_user_playlist_by_title", user, filter_out_soft_deleted,
                            {key \in ConnectedPlaylists(user) : playlists[key].title = title},
                            ret)
    /\ UNCHANGED <<playlists, hasEdges, hadEdges, hashtagVars, thumbVars, docVars, audioVars, hitVars>>

GetUserPlaylistByKey ==
    /\ \E user \in Users, playlist_key \in PlaylistKeys, filter_out_soft_deleted \in BOOLEAN :
          \E ret \in get_user_playlist_by_key(user, playlist_key, filter_out_soft_deleted) :
              playlistCall' =
                  QueryCall("get_user_playlist_by_key", user, filter_out_soft_deleted,
                            {key \in ConnectedPlaylists(user) : key = playlist_key},
                            ret)
    /\ UNCHANGED <<playlists, hasEdges, hadEdges, hashtagVars, thumbVars, docVars, audioVars, hitVars>>

\* _get_playlist_and_audio, given the playlist its query returned
GetPlaylistAndAudio(playlist, hit_download_url) ==
    LET hit == find_hit_by_download_url(hit_download_url)
        audio == get_audio_from_hit(hit)
        raised == IF playlist = None THEN "PlaylistDoesNotExists"
                  ELSE IF hit = NoHit THEN "HitDoesNotExists"
                  ELSE IF audio = NoAudio THEN "HitNoLinkedAudio"
                  ELSE IF audio.audio_type # "AUDIO_FILE" THEN "InvalidAudioForInlineMode"
                  ELSE "None"
    IN  [raised |-> raised, playlist |-> playlist, audio |-> audio.key]

\* Has.get(Has.parse_key(playlist, audio)) is not None
AlreadyOnPlaylist_Never(playlist, audio) == FALSE

AlreadyOnPlaylist(playlist, audio) ==
    EdgeKey(PlaylistV(playlist), AudioV(audio)) \in hasEdges

\* what a call of add_audio_to_playlist or remove_audio_from_playlist did
AudioCall(op, raised, looked_up, on_playlist, ret, has_key) ==
    [op |-> op, raised |-> raised, looked_up |-> looked_up,
     on_playlist |-> on_playlist, ret |-> ret,
     has_created |-> has_key \in hasEdges' \ hasEdges,
     has_deleted |-> has_key \in hasEdges \ hasEdges',
     had_created |-> has_key \in hadEdges' \ hadEdges,
     has_edges |-> Cardinality({key \in hasEdges' : key = has_key}),
     had_after |-> has_key \in hadEdges',
     changed |-> <<hasEdges', hadEdges'>> # <<hasEdges, hadEdges>>]

AddAudioToPlaylist ==
    /\ \E user \in Users, playlist_key \in PlaylistKeys, hit_download_url \in Urls \cup {NoUrl} :
          \E playlist \in get_user_playlist_by_key(user, playlist_key, TRUE),
             outcome \in EdgeOutcomes :
              LET op == "add_audio_to_playlist"
                  pa == GetPlaylistAndAudio(playlist, hit_download_url)
                  has_key == EdgeKey(PlaylistV(pa.playlist), AudioV(pa.audio))
              IN  IF hit_download_url = NoUrl
                  THEN /\ UNCHANGED <<hasEdges, hadEdges>>
                       /\ playlistCall' = AudioCall(op, "None", FALSE, FALSE,
                                                    <<FALSE, FALSE>>, has_key)
                  ELSE IF pa.raised # "None"
                  THEN /\ UNCHANGED <<hasEdges, hadEdges>>
                       /\ playlistCall' = AudioCall(op, pa.raised, FALSE, FALSE,
                                                    <<FALSE, FALSE>>, has_key)
                  ELSE IF AlreadyOnPlaylist(pa.playlist, pa.audio)
                  THEN /\ UNCHANGED <<hasEdges, hadEdges>>
                       /\ playlistCall' = AudioCall(op, "None", TRUE,
                                                    has_key \in hasEdges,
                                                    <<TRUE, FALSE>>, has_key)
                  ELSE /\ hasEdges' = get_or_create_edge(hasEdges, has_key, outcome)
                       /\ UNCHANGED hadEdges
                       /\ playlistCall' = AudioCall(op, "None", TRUE,
                                                    has_key \in hasEdges,
                                                    IF has_key \in hasEdges'
                                                    THEN <<TRUE, TRUE>>
                                                    ELSE <<FALSE, FALSE>>, has_key)
    /\ UNCHANGED <<playlists, hashtagVars, thumbVars, docVars, audioVars, hitVars>>

\* the Had edges after has_edge.delete() returned `deleted`: the method raises
\* EdgeDeletionFailed before it reaches Had.get_or_create_edge
HadAfterRemoval_Always(deleted, had_key, outcome) ==
    IF outcome = "InvalidVertex" THEN hadEdges
    ELSE get_or_create_edge(hadEdges, had_key, outcome)

HadAfterRemoval(deleted, had_key, outcome) ==
    IF ~deleted \/ outcome = "InvalidVertex" THEN hadEdges
    ELSE get_or_create_edge(hadEdges, had_key, outcome)

RemoveAudioFromPlaylist ==
    /\ \E user \in Users, playlist_key \in PlaylistKeys, hit_download_url \in Urls \cup {NoUrl} :
          \E playlist \in get_user_playlist_by_key(user, playlist_key, TRUE),
             deleted \in BOOLEAN, outcome \in HadOutcomes :
              LET op == "remove_audio_from_playlist"
                  pa == GetPlaylistAndAudio(playlist, hit_download_url)
                  has_key == EdgeKey(PlaylistV(pa.playlist), AudioV(pa.audio))
              IN  IF hit_download_url = NoUrl
                  THEN /\ UNCHANGED <<hasEdges, hadEdges>>
                       /\ playlistCall' = AudioCall(op, "None", FALSE, FALSE,
                                                    <<FALSE, FALSE>>, has_key)
                  ELSE IF pa.raised # "None"
                  THEN /\ UNCHANGED <<hasEdges, hadEdges>>
                       /\ playlistCall' = AudioCall(op, pa.raised, FALSE, FALSE,
                                                    <<FALSE, FALSE>>, has_key)
                  ELSE IF ~AlreadyOnPlaylist(pa.playlist, pa.audio)
                  THEN /\ UNCHANGED <<hasEdges, hadEdges>>
                       /\ playlistCall' = AudioCall(op, "None", TRUE,
                                                    has_key \in hasEdges,
                                                    <<TRUE, FALSE>>, has_key)
                  ELSE /\ hasEdges' = IF deleted THEN hasEdges \ {has_key} ELSE hasEdges
                       /\ hadEdges' = HadAfterRemoval(deleted, has_key, outcome)
                       /\ playlistCall' =
                             AudioCall(op,
                                       IF deleted THEN "None" ELSE "EdgeDeletionFailed",
                                       TRUE, has_key \in hasEdges,
                                       IF ~deleted THEN <<FALSE, FALSE>>
                                       ELSE IF outcome # "InvalidVertex"
                                               /\ has_key \in hadEdges'
                                       THEN <<TRUE, TRUE>>
                                       ELSE <<FALSE, FALSE>>, has_key)
    /\ UNCHANGED <<playlists, hashtagVars, thumbVars, docVars, audioVars, hitVars>>

NextPlaylists ==
    \/ CreatePlaylist
    \/ GetOrCreatePlaylist
    \/ CreateFavoritePlaylist
    \/ GetOrCreateFavoritePlaylist
    \/ RemovePlaylist
    \/ GetUserPlaylistByTitle
    \/ GetUserPlaylistByKey

SpecPlaylists == InitPlaylists /\ [][NextPlaylists]_vars

\* The audios of playlists: every user has created one playlist, and the
\* second user may have removed theirs.
LivePlaylist == [title |-> "A", is_favorite |-> FALSE,
                 is_soft_deleted |-> FALSE, deleted_at |-> None]

RemovedPlaylist == [LivePlaylist EXCEPT !.is_soft_deleted = TRUE, !.deleted_at = 1]

InitPlaylistAudios ==
    /\ \/ /\ playlists = <<LivePlaylist, LivePlaylist>>
          /\ hasEdges = {EdgeKey(UserV(u), PlaylistV(u)) : u \in Users}
          /\ hadEdges = {}
       \/ /\ playlists = <<LivePlaylist, RemovedPlaylist>>
          /\ hasEdges = {EdgeKey(UserV(1), PlaylistV(1))}
          /\ hadEdges = {EdgeKey(UserV(2), PlaylistV(2))}
    /\ playlistCall = NoCall
    /\ HashtagsOff
    /\ ThumbnailsOff
    /\ DocsOff
    /\ AudiosOff
    /\ HitsOff

NextPlaylistAudios == AddAudioToPlaylist \/ RemoveAudioFromPlaylist

SpecPlaylistAudios == InitPlaylistAudios /\ [][NextPlaylistAudios]_vars

----------------------------------------------------------------------------
(* Audios: create_audio, get_or_create_audio, update_or_create_audio and   *)
(* the mark_as_* methods.  The methods are called for the messages of one  *)
(* chat position, so every parsed Audio has the same key.                  *)

AudioKey == 1
Tags == {1}
FileUniqueIds == {1, 2}
Now == 5          \* get_now_timestamp()
ArchiveMessageId == 8

\* A message: whether it is empty (deleted in Telegram), what
\* get_telegram_message_media_type finds in it, the hashtags of its caption,
\* and whether it was forwarded (from a visible source or a hidden one) or
\* sent via a bot.  A message without a valid audio file has nothing else.
ValidAudioMessages ==
    [empty : BOOLEAN, media : {"AUDIO_FILE"}, file_unique_id : FileUniqueIds,
     tags : SUBSET Tags, forwarded : {"None", "source", "hidden"}, via_bot : BOOLEAN]

NonAudioMessages ==
    [empty : BOOLEAN, media : {"NON_AUDIO"}, file_unique_id : {None},
     tags : {{}}, forwarded : {"None"}, via_bot : {FALSE}]

Messages == ValidAudioMessages \cup NonAudioMessages

\* telegram_message is None: <<>>
MessageArgs == {<<>>} \cup {<<m>> : m \in Messages}

IsValidAudio(telegram_message) == telegram_message.media # "NON_AUDIO"

\* Audio.parse, for a message with a valid audio file
Parse(telegram_message, audio_type) ==
    [key |-> AudioKey, rev |-> None,
     message_caption |-> telegram_message.tags,
     file_unique_id |-> telegram_message.file_unique_id,
     audio_type |-> telegram_message.media,
     type |-> audio_type,
     archive_message_id |-> None,
     is_deleted |-> telegram_message.empty,
     deleted_at |-> None,
     has_checked_forwarded_message_at |-> None]

AudioDoNotUpdateFields ==
    {"created_at", "has_checked_forwarded_message_at", "deleted_at"}

\* Audio.get(key): the stored vertices with the key
StoredWithKey(key) == {i \in DOMAIN audios : audios[i].key = key}

AudioGet(key) ==
    IF StoredWithKey(key) = {} THEN <<>>
    ELSE <<audios[CHOOSE i \in StoredWithKey(key) : TRUE]>>

\* Audio.insert: the collection refuses a key that is taken
AudioInsert(doc, accepted) ==
    IF accepted /\ StoredWithKey(doc.key) = {}
    THEN Append(audios, [doc EXCEPT !.rev = 1])
    ELSE audios

RECURSIVE TagSeq(_)
TagSeq(tags) ==
    IF tags = {} THEN <<>>
    ELSE LET t == CHOOSE t \in tags : \A u \in tags : t <= u
         IN  <<t>> \o TagSeq(tags \ {t})

HashtagEdgesOf(tag_seq) == [i \in DOMAIN tag_seq |-> <<"HasHashtag", tag_seq[i]>>]

\* The edges create_audio asks for, in the order it asks for them.  `skipped`
\* are the hashtags get_or_create_hashtag returned no vertex for.
EdgesAsked(telegram_message, skipped) ==
    HashtagEdgesOf(TagSeq(telegram_message.tags \ skipped))
        \o <<<<"SentBy", "chat">>, <<"FileRef", telegram_message.file_unique_id>>>>
        \o (IF telegram_message.forwarded = "source"
            THEN <<<<"ForwardedFrom", "source">>>> ELSE <<>>)
        \o (IF telegram_message.via_bot THEN <<<<"ViaBot", "bot">>>> ELSE <<>>)

EdgeRange(asked, n) == {asked[i] : i \in 1 .. n}

\* the most edges create_audio asks for
MaxAsked == Cardinality(Tags) + 4

\* "if ..._edge is None: raise EdgeCreationFailed(...)"
RaisedFor_Never(failed) == "None"

RaisedFor(failed) == IF failed # 0 THEN "EdgeCreationFailed" ELSE "None"

\* create_audio.  `none_at` is the position of the first edge whose creation
\* yields None (0: none does).  The result: the collection and the edges
\* after the call, what is returned and what is raised.
create_audio(telegram_message, audio_type, accepted, skipped, none_at) ==
    IF telegram_message = <<>> \/ ~IsValidAudio(telegram_message[1])
    THEN [audios |-> audios, edges |-> audioEdges, ret |-> <<>>, raised |-> "None",
          yielded_none |-> FALSE]
    ELSE LET doc == Parse(telegram_message[1], audio_type)
             after == AudioInsert(doc, accepted)
             asked == EdgesAsked(telegram_message[1], skipped)
             failed == IF none_at \in DOMAIN asked THEN none_at ELSE 0
         IN  IF after = audios
             THEN [audios |-> audios, edges |-> audioEdges, ret |-> <<>>,
                   raised |-> "None", yielded_none |-> FALSE]
             ELSE IF RaisedFor(failed) # "None"
             THEN [audios |-> after,
                   edges |-> audioEdges \cup EdgeRange(asked, failed - 1),
                   ret |-> <<>>, raised |-> RaisedFor(failed),
                   yielded_none |-> failed # 0]
             ELSE [audios |-> after,
                   edges |-> audioEdges
                                \cup EdgeRange(asked, IF failed = 0 THEN Len(asked)
                                                      ELSE failed - 1)
                                \cup {asked[i] : i \in failed + 1 .. Len(asked)},
                   ret |-> <<after[Len(after)]>>, raised |-> "None",
                   yielded_none |-> failed # 0]

\* what a call of create_audio can do
CreateResults(telegram_message, audio_type) ==
    {create_audio(telegram_message, audio_type, accepted, skipped, none_at) :
        accepted \in BOOLEAN, skipped \in SUBSET Tags, none_at \in 0 .. MaxAsked}

\* self.update(doc, reserve_non_updatable_fields, check_for_revisions_match):
\* the collection after the call.  The document written takes its metadata
\* from self and, if asked, the fields that are not updatable; the collection
\* refuses it when no vertex has the key, or when revisions are checked and
\* the revision of self is not the stored one.
AudioUpdate(self, doc, reserve_non_updatable_fields, check_for_revisions_match, accepted) ==
    LET with_metadata == [doc EXCEPT !.key = self.key, !.rev = self.rev]
        written == IF reserve_non_updatable_fields
                   THEN [f \in DOMAIN with_metadata |->
                            IF f \in AudioDoNotUpdateFields THEN self[f]
                            ELSE with_metadata[f]]
                   ELSE with_metadata
        targets == StoredWithKey(written.key)
        taken == /\ accepted
                 /\ targets # {}
                 /\ check_for_revisions_match =>
                        \A i \in targets : audios[i].rev = written.rev
    IN  IF taken
        THEN [i \in DOMAIN audios |->
                 IF i \in targets THEN [written EXCEPT !.rev = audios[i].rev + 1]
                 ELSE audios[i]]
        ELSE audios

mark_as_deleted(self, accepted) ==
    AudioUpdate(self, [self EXCEPT !.is_deleted = TRUE, !.deleted_at = Now],
                FALSE, FALSE, accepted)

mark_as_non_audio_Deleting(self, accepted) ==
    AudioUpdate(self, [self EXCEPT !.audio_type = "NON_AUDIO", !.is_deleted = TRUE],
                TRUE, FALSE, accepted)

mark_as_non_audio(self, accepted) ==
    AudioUpdate(self, [self EXCEPT !.audio_type = "NON_AUDIO"], TRUE, FALSE, accepted)

mark_as_archived(self, archive_message_id, accepted) ==
    AudioUpdate(self, [self EXCEPT !.type = "ARCHIVED",
                                   !.archive_message_id = archive_message_id],
                TRUE, FALSE, accepted)

HashtagEdges(edges) == {e \in edges : e[1] = "HasHashtag"}
FileRefEdges(edges) == {e \in edges : e[1] = "FileRef"}

DesiredHashtagEdges(tags) == {<<"HasHashtag", t>> : t \in tags}

\* _update_connected_hashtags deletes some of the stale hashtag edges (a failed
\* deletion is only logged) and creates some of the missing ones (a hashtag
\* without a vertex is skipped); it raises EdgeCreationFailed when the
\* creation of a missing edge yields None.  Then, if the file has changed,
\* the FileRef edge is replaced: the current edge is deleted and the new one
\* created, unless the deletion fails or the creation yields None.
UpdatedEdges(edges, tags, file_unique_id, same_file, deleted, created, tag_none, file_step) ==
    LET tagged == (edges \ deleted) \cup created
        current == FileRefEdges(tagged)
    IN  IF tag_none
        THEN [edges |-> tagged, raised |-> "EdgeCreationFailed"]
        ELSE IF same_file \/ (current # {} /\ file_step = "delete_failed")
        THEN [edges |-> tagged, raised |-> "None"]
        ELSE IF file_step = "None"
        THEN [edges |-> tagged \ current, raised |-> "EdgeCreationFailed"]
        ELSE [edges |-> (tagged \ current) \cup {<<"FileRef", file_unique_id>>},
              raised |-> "None"]

InitAudios ==
    /\ audios = <<>> /\ audioEdges = {}
    /\ held = [c \in Callers |-> <<>>]
    /\ audioCall = NoCall
    /\ HashtagsOff
    /\ ThumbnailsOff
    /\ DocsOff
    /\ PlaylistsOff
    /\ HitsOff

RevisionsLeft == \A i \in DOMAIN audios' : audios'[i].rev <= MaxRev

CreateAudio ==
    /\ \E telegram_message \in MessageArgs :
          \E r \in CreateResults(telegram_message, "NOT_ARCHIVED") :
              /\ audios' = r.audios
              /\ audioEdges' = r.edges
              /\ audioCall' = [op |-> "create_audio",
                               valid |-> telegram_message # <<>>
                                         /\ IsValidAudio(telegram_message[1]),
                               inserted |-> audios' # audios,
                               returned |-> r.ret # <<>>,
                               raised |-> r.raised,
                               yielded_none |-> r.yielded_none]
    /\ UNCHANGED <<held, hashtagVars, thumbVars, docVars, playlistVars, hitVars>>

\* update_or_create_audio for a stored audio and a message with a valid audio
\* file that is not empty: the collections and edges it can leave, with what
\* is raised.
UpdateStoredAudio(audio, telegram_message) ==
    LET new_audio == Parse(telegram_message, audio.type)
        updated == AudioUpdate(audio, new_audio, TRUE, TRUE, TRUE)
        desired == DesiredHashtagEdges(new_audio.message_caption)
        stale == HashtagEdges(audioEdges) \ desired
        missing == desired \ audioEdges
    IN  {[audios |-> audios, edges |-> audioEdges, raised |-> "None"]}
        \cup {[audios |-> updated] @@
              UpdatedEdges(audioEdges, new_audio.message_caption,
                           new_audio.file_unique_id,
                           new_audio.file_unique_id = audio.file_unique_id,
                           c[1], c[2], c[3], c[4]) :
                 c \in {d \in (SUBSET stale) \X (SUBSET missing) \X BOOLEAN
                                \X {"delete_failed", "None", "edge"} :
                           d[3] => d[2] # missing}}

UpdateOrCreateAudio ==
    /\ \E telegram_message \in MessageArgs :
          LET stored == AudioGet(AudioKey)
              branch == IF telegram_message = <<>> THEN "None"
                        ELSE IF stored = <<>> THEN "create"
                        ELSE IF ~IsValidAudio(telegram_message[1]) THEN "non_audio"
                        ELSE IF telegram_message[1].empty THEN "deleted"
                        ELSE "update"
              results ==
                  CASE branch = "None" ->
                          {[audios |-> audios, edges |-> audioEdges, raised |-> "None"]}
                    [] branch = "create" ->
                          {[audios |-> c.audios, edges |-> c.edges, raised |-> c.raised] :
                              c \in CreateResults(telegram_message, "NOT_ARCHIVED")}
                    [] branch = "non_audio" ->
                          {[audios |-> mark_as_non_audio(stored[1], accepted),
                            edges |-> audioEdges, raised |-> "None"] :
                              accepted \in BOOLEAN}
                    [] branch = "deleted" ->
                          {[audios |-> mark_as_deleted(stored[1], accepted),
                            edges |-> audioEdges, raised |-> "None"] :
                              accepted \in BOOLEAN}
                    [] OTHER -> UpdateStoredAudio(stored[1], telegram_message[1])
          IN  \E r \in results :
                  /\ audios' = r.audios
                  /\ audioEdges' = r.edges
                  /\ RevisionsLeft
                  /\ audioCall' = [op |-> "update_or_create_audio",
                                   before |-> stored,
                                   empty |-> telegram_message # <<>> /\ telegram_message[1].empty,
                                   valid |-> telegram_message # <<>>
                                             /\ IsValidAudio(telegram_message[1]),
                                   written |-> audios' # audios,
                                   edges_changed |-> audioEdges' # audioEdges,
                                   raised |-> r.raised]
    /\ UNCHANGED <<held, hashtagVars, thumbVars, docVars, playlistVars, hitVars>>

NextAudios == CreateAudio \/ UpdateOrCreateAudio

SpecAudios == InitAudios /\ [][NextAudios]_vars

\* get_or_create_audio, called by two callers for messages with the key of
\* the audio.  A call is two steps, the lookup and the rest: other calls may
\* run between "await Audio.get(...)" and "await self.create_audio(...)".
NotEmptyMessages == {m \in ValidAudioMessages : ~m.empty /\ m.forwarded # "hidden"}

\* "if audio is None" after the lookup
FoundStored_Never(audio) == FALSE

FoundStored(audio) == audio # <<>>

GetOrCreateAudioGet(c) ==
    /\ held[c] = <<>>
    /\ \E telegram_message \in NotEmptyMessages :
          held' = [held EXCEPT ![c] = <<[found |-> AudioGet(AudioKey),
                                        telegram_message |-> telegram_message]>>]
    /\ UNCHANGED <<audios, audioEdges, audioCall,
                   hashtagVars, thumbVars, docVars, playlistVars, hitVars>>

GetOrCreateAudioReturn(c) ==
    /\ held[c] # <<>>
    /\ LET audio == held[c][1].found
           results == IF FoundStored(audio)
                      THEN {[audios |-> audios, edges |-> audioEdges, ret |-> audio,
                             raised |-> "None", yielded_none |-> FALSE]}
                      ELSE CreateResults(<<held[c][1].telegram_message>>, "NOT_ARCHIVED")
       IN  \E r \in results :
               /\ audios' = r.audios
               /\ audioEdges' = r.edges
               /\ audioCall' = [op |-> "get_or_create_audio",
                                found |-> audio # <<>>,
                                returned_found |-> r.ret = audio,
                                returned |-> r.ret # <<>>,
                                inserted |-> Len(audios') > Len(audios),
                                wrote |-> <<audios', audioEdges'>> # <<audios, audioEdges>>,
                                raised |-> r.raised]
    /\ held' = [held EXCEPT ![c] = <<>>]
    /\ UNCHANGED <<hashtagVars, thumbVars, docVars, playlistVars, hitVars>>

GetOrCreateAudio(c) == GetOrCreateAudioGet(c) \/ GetOrCreateAudioReturn(c)

NextGetOrCreateAudio == \E c \in Callers : GetOrCreateAudio(c)

SpecGetOrCreateAudio == InitAudios /\ [][NextGetOrCreateAudio]_vars

----------------------------------------------------------------------------
(* Hits: the audio linked with a hit *)

LinkedAudioKeys == {1, 2, 3}

\* get_audio_from_hit is given a Hit vertex or None (<<>>)
HitArgs == {<<>>} \cup {<<hit>> : hit \in HitKeys}

\* _get_audio_from_hit_query: a 1..1 outbound traversal from the hit over Has
\* edges to Audio vertices, "limit 1 return v".  The cursors it can give: no
\* document when no audio is linked, else one of the linked audios.
get_audio_from_hit_query(hit) ==
    IF hitAudios[hit] = {} THEN {<<>>} ELSE {<<v>> : v \in hitAudios[hit]}

\* the body of get_audio_from_hit after the query: res is what the cursor gave
AudioFromHit(res) ==
    IF Len(res) > 1 THEN [ret |-> <<>>, raised |-> "ValueError"]
    ELSE IF res # <<>> THEN [ret |-> <<res[1]>>, raised |-> "None"]
    ELSE [ret |-> <<>>, raised |-> "None"]

InitHits ==
    /\ hitAudios \in [HitKeys -> SUBSET LinkedAudioKeys]
    /\ queries = <<>> /\ hitVertices = <<>> /\ queryEdges = {}
    /\ inlineMessages = <<>> /\ interactions = <<>>
    /\ hitCall = NoCall
    /\ HashtagsOff
    /\ ThumbnailsOff
    /\ DocsOff
    /\ PlaylistsOff
    /\ AudiosOff

GetAudioFromHit ==
    /\ \E hit \in HitArgs :
          IF hit = <<>>
          THEN hitCall' = [op |-> "get_audio_from_hit", hit |-> hit,
                           ret |-> <<>>, raised |-> "None"]
          ELSE \E res \in get_audio_from_hit_query(hit[1]) :
                  hitCall' = [op |-> "get_audio_from_hit", hit |-> hit,
                              ret |-> AudioFromHit(res).ret,
                              raised |-> AudioFromHit(res).raised]
    /\ UNCHANGED <<hitAudios, queries, hitVertices, queryEdges, inlineMessages, interactions>>
    /\ UNCHANGED <<hashtagVars, thumbVars, docVars, playlistVars, audioVars>>

NextHits == GetAudioFromHit

SpecHits == InitHits /\ [][NextHits]_vars

----------------------------------------------------------------------------
(* Queries: create_query and the hits it creates.  The calls are made for  *)
(* one query, so every parsed Query has the same key.                      *)

QueryKey == 1
QueryAudioKeys == {1, 2}
InlineQueryTypes == {"None", "SEARCH", "COMMAND", "OTHER"}

SeqsUpTo(S, n) == UNION {[1 .. k -> S] : k \in 0 .. n}

\* audios: List[Audio] and search_metadata_list, an entry None is <<>>
AudioLists == SeqsUpTo({<<>>} \cup {<<key>> : key \in QueryAudioKeys}, MaxAudios)
SearchMetadataLists == SeqsUpTo({<<>>, <<"metadata">>}, MaxAudios)

\* Query.insert: the collection refuses a key that is taken
StoredQueries(key) == {i \in DOMAIN queries : queries[i].key = key}

\* "hit_type = HitType.UNKNOWN ... else: hit_type = HitType.SEARCH"
HitTypeFor_TypeOnly(inline_query_type, telegram_inline_query) ==
    IF inline_query_type # "None"
    THEN CASE inline_query_type = "SEARCH" -> "INLINE_SEARCH"
           [] inline_query_type = "COMMAND" -> "INLINE_COMMAND"
           [] OTHER -> "UNKNOWN"
    ELSE "SEARCH"

HitTypeFor(inline_query_type, telegram_inline_query) ==
    IF inline_query_type # "None" /\ telegram_inline_query
    THEN CASE inline_query_type = "SEARCH" -> "INLINE_SEARCH"
           [] inline_query_type = "COMMAND" -> "INLINE_COMMAND"
           [] OTHER -> "UNKNOWN"
    ELSE "SEARCH"

\* zip(audios, search_metadata_list) stops at the end of the shorter list
ZipLen(audio_list, search_metadata_list) ==
    IF Len(audio_list) <= Len(search_metadata_list)
    THEN Len(audio_list) ELSE Len(search_metadata_list)

\* get_or_create_hit(db_query, audio, search_metadata, hit_type): the hit of
\* the query for the audio if one is stored, else a new one
HitsOf(hits, audio) ==
    {i \in DOMAIN hits : hits[i].query = QueryKey /\ hits[i].audio = audio}

NewHit(audio, hit_type) ==
    [query |-> QueryKey, audio |-> audio, hit_type |-> hit_type,
     download_url |-> <<QueryKey, audio>>]

get_or_create_hit(hits, audio, hit_type) ==
    IF HitsOf(hits, audio) # {} THEN hits ELSE Append(hits, NewHit(audio, hit_type))

TheHit(hits, audio) == hits[CHOOSE i \in HitsOf(hits, audio) : TRUE]

\* the loop of create_query from position i on; acc holds the Hit collection,
\* the edges of the query and the list `hits` so far.  The results: one per
\* way the remaining positions can turn out.  At a position get_or_create_hit
\* gives None (Exception), or a hit that is listed, and then
\* Has.get_or_create_edge gives None (Exception), raises ValueError (logged,
\* no edge) or gives the edge.
RECURSIVE HitLoop(_, _, _, _, _)
HitLoop(audio_list, search_metadata_list, hit_type, i, acc) ==
    IF i > ZipLen(audio_list, search_metadata_list) THEN {acc}
    ELSE IF audio_list[i] = <<>> \/ search_metadata_list[i] = <<>>
    THEN HitLoop(audio_list, search_metadata_list, hit_type, i + 1, acc)
    ELSE LET audio == audio_list[i][1]
             stored == get_or_create_hit(acc.hits, audio, hit_type)
             hit == TheHit(stored, audio)
             listed == [acc EXCEPT !.hits = stored, !.ret = Append(@, hit)]
             linked == [listed EXCEPT !.edges = @ \cup {<<"Has", hit.download_url>>}]
         IN  {[acc EXCEPT !.raised = "Exception"],
              [listed EXCEPT !.raised = "Exception"]}
                 \cup HitLoop(audio_list, search_metadata_list, hit_type, i + 1, listed)
                 \cup HitLoop(audio_list, search_metadata_list, hit_type, i + 1, linked)

\* create_query once the bot is found and the Query is inserted.  HasMade and
\* ToBot: get_or_create_edge giving None raises Exception, a ValueError is
\* logged and leaves no edge.
QueryResults(inline_query_type, telegram_inline_query, audio_list, search_metadata_list) ==
    LET inserted == Append(queries, [key |-> QueryKey,
                                     inline_query_type |-> inline_query_type,
                                     inline |-> telegram_inline_query])
        hit_type == HitTypeFor(inline_query_type, telegram_inline_query)
        start(edges) == [hits |-> hitVertices, edges |-> edges, ret |-> <<>>,
                         raised |-> "None"]
        has_made(edges) == {edges, edges \cup {<<"HasMade", "user">>}}
        to_bot(edges) == {edges, edges \cup {<<"ToBot", "bot">>}}
        raising == {start(queryEdges)}
                      \cup {start(e) : e \in has_made(queryEdges)}
        looping == UNION {HitLoop(audio_list, search_metadata_list, hit_type, 1, start(e)) :
                             e \in UNION {to_bot(d) : d \in has_made(queryEdges)}}
    IN  {[queries |-> inserted, hits |-> r.hits, edges |-> r.edges, ret |-> <<>>,
          raised |-> "Exception"] : r \in raising}
           \cup {[queries |-> inserted, hits |-> r.hits, edges |-> r.edges,
                  ret |-> IF r.raised = "None" THEN <<r.ret>> ELSE <<>>,
                  raised |-> r.raised] : r \in looping}

InitQueries ==
    /\ hitAudios = [hit \in HitKeys |-> {}]
    /\ queries = <<>> /\ hitVertices = <<>> /\ queryEdges = {}
    /\ inlineMessages = <<>> /\ interactions = <<>>
    /\ hitCall = NoCall
    /\ HashtagsOff
    /\ ThumbnailsOff
    /\ DocsOff
    /\ PlaylistsOff
    /\ AudiosOff

\* a call that returns (None, None) before it wrote anything
ReturnedNoQuery(op) ==
    /\ hitCall' = [op |-> op, inserted |-> FALSE, ret |-> <<>>, raised |-> "None"]
    /\ UNCHANGED <<queries, hitVertices, queryEdges>>

CreateQuery ==
    /\ \E given, bot_found, accepted \in BOOLEAN :
          IF ~given \/ ~bot_found \/ ~accepted \/ StoredQueries(QueryKey) # {}
          THEN ReturnedNoQuery("create_query")
          ELSE \E inline_query_type \in InlineQueryTypes, telegram_inline_query \in BOOLEAN,
                  audio_list \in AudioLists, search_metadata_list \in SearchMetadataLists :
                  \E r \in QueryResults(inline_query_type, telegram_inline_query,
                                        audio_list, search_metadata_list) :
                      /\ queries' = r.queries
                      /\ hitVertices' = r.hits
                      /\ queryEdges' = r.edges
                      /\ hitCall' = [op |-> "create_query", inserted |-> TRUE,
                                     inline_query_type |-> inline_query_type,
                                     telegram_inline_query |-> telegram_inline_query,
                                     audios |-> audio_list,
                                     search_metadata_list |-> search_metadata_list,
                                     ret |-> r.ret, raised |-> r.raised]
    /\ UNCHANGED <<hitAudios, inlineMessages, interactions>>
    /\ UNCHANGED <<hashtagVars, thumbVars, docVars, playlistVars, audioVars>>

NextQueries == CreateQuery

SpecQueries == InitQueries /\ [][NextQueries]_vars

----------------------------------------------------------------------------
(* The inline query handler: on_inline_query *)

\* what self.db.search_audio gives: audio documents, each found once
AudioDocLists ==
    {docs \in SeqsUpTo(QueryAudioKeys, MaxAudios) :
        \A i, j \in DOMAIN docs : docs[i] = docs[j] => i = j}

\* inline_query.offset: "" or the next_offset of an earlier answer
Offsets == {0, 15}

\* the hits with a Has edge from the query (get_query_hits)
QueryHits ==
    SelectSeq(hitVertices, LAMBDA hit : <<"Has", hit.download_url>> \in queryEdges)

\* self.db.get_or_create_inline_query(..., audio_docs = db_audio_docs, ...):
\* the stored query with its hits, else what creating the query and one hit
\* per audio document gives
get_or_create_inline_query(audio_docs, bot_found, accepted) ==
    IF StoredQueries(QueryKey) # {}
    THEN {[queries |-> queries, hits |-> hitVertices, edges |-> queryEdges,
           ret |-> <<QueryHits>>, raised |-> "None"]}
    ELSE IF ~bot_found \/ ~accepted
    THEN {[queries |-> queries, hits |-> hitVertices, edges |-> queryEdges,
           ret |-> <<>>, raised |-> "None"]}
    ELSE QueryResults("SEARCH", TRUE,
                      [i \in DOMAIN audio_docs |-> <<audio_docs[i]>>],
                      [i \in DOMAIN audio_docs |-> <<"metadata">>])

\* "for db_audio_doc in db_audio_docs": the results, one per document that
\* has a cached file and a title
RECURSIVE InlineResults(_, _, _)
InlineResults(db_audio_docs, cached, titled) ==
    IF db_audio_docs = <<>> THEN <<>>
    ELSE (IF Head(db_audio_docs) \in cached /\ Head(db_audio_docs) \in titled
          THEN <<[id |-> Head(db_audio_docs), reply_markup |-> <<>>]>>
          ELSE <<>>)
            \o InlineResults(Tail(db_audio_docs), cached, titled)

\* "for res, db_hit in zip(results, db_hits)": each result gets the button
\* with the download url of the hit at its position
WithButtons(results, db_hits) ==
    [i \in DOMAIN results |->
        IF i \in DOMAIN db_hits
        THEN [results[i] EXCEPT !.reply_markup = <<db_hits[i].download_url>>]
        ELSE results[i]]

\* on_inline_query for a query that is not empty.  The results of the
\* handler: what is stored afterwards and what is answered.
InlineQueryResults(db_audio_docs, from_, cached, titled) ==
    LET results == InlineResults(db_audio_docs, cached, titled)
        next_offset == IF results # <<>>
                       THEN <<from_ + Len(results) + (IF from_ = 0 THEN 2 ELSE 0)>>
                       ELSE <<>>
        handled(r) ==
            [queries |-> r.queries, hits |-> r.hits, edges |-> r.edges,
             db_hits |-> r.ret, raised |-> r.raised,
             results |-> IF r.ret # <<>> /\ r.ret[1] # <<>>
                         THEN WithButtons(results, r.ret[1]) ELSE results,
             next_offset |-> next_offset,
             answer |-> IF r.raised # "None" THEN "None"
                        ELSE IF db_audio_docs # <<>> THEN "results"
                        ELSE IF from_ = 0 THEN "no_results" ELSE "None"]
    IN  {handled(r) : r \in UNION {get_or_create_inline_query(db_audio_docs, b, a) :
                                      b, a \in BOOLEAN}}

OnInlineQuery ==
    /\ \E empty_query \in BOOLEAN, from_ \in Offsets :
          IF empty_query
          THEN /\ hitCall' = [op |-> "on_inline_query", db_audio_docs |-> <<>>,
                              db_hits |-> <<>>, raised |-> "None", results |-> <<>>,
                              next_offset |-> <<>>,
                              answer |-> IF from_ = 0 THEN "no_results" ELSE "None"]
               /\ UNCHANGED <<queries, hitVertices, queryEdges>>
          ELSE \E db_audio_docs \in AudioDocLists, cached, titled \in SUBSET QueryAudioKeys :
                  \E r \in InlineQueryResults(db_audio_docs, from_, cached, titled) :
                      /\ queries' = r.queries
                      /\ hitVertices' = r.hits
                      /\ queryEdges' = r.edges
                      /\ hitCall' = [op |-> "on_inline_query",
                                     db_audio_docs |-> db_audio_docs,
                                     db_hits |-> r.db_hits, raised |-> r.raised,
                                     results |-> r.results,
                                     next_offset |-> r.next_offset,
                                     answer |-> r.answer]
    /\ UNCHANGED <<hitAudios, inlineMessages, interactions>>
    /\ UNCHANGED <<hashtagVars, thumbVars, docVars, playlistVars, audioVars>>

NextInlineQuery == OnInlineQuery

SpecInlineQuery == InitQueries /\ [][NextInlineQuery]_vars

----------------------------------------------------------------------------
(* Callers that mark the stored audio, each on the Audio object it has got *)

MarkOps == {"mark_as_deleted", "mark_as_non_audio", "mark_as_archived"}

\* the Audio collection holds the audio of a message that create_audio stored
InitMarkAudio ==
    /\ \E telegram_message \in {m \in ValidAudioMessages : ~m.empty} :
          /\ audios = <<[Parse(telegram_message, "NOT_ARCHIVED") EXCEPT !.rev = 1]>>
          /\ audioEdges = LET asked == EdgesAsked(telegram_message, {})
                          IN  EdgeRange(asked, Len(asked))
    /\ held = [c \in Callers |-> <<>>]
    /\ audioCall = NoCall
    /\ HashtagsOff
    /\ ThumbnailsOff
    /\ DocsOff
    /\ PlaylistsOff
    /\ HitsOff

\* the caller gets the stored audio: Audio.get(key)
MarkGet(c) ==
    /\ held[c] = <<>>
    /\ AudioGet(AudioKey) # <<>>
    /\ held' = [held EXCEPT ![c] = <<[audio |-> AudioGet(AudioKey)[1],
                                      called |-> "None", ret |-> FALSE]>>]
    /\ UNCHANGED <<audios, audioEdges, audioCall,
                   hashtagVars, thumbVars, docVars, playlistVars, hitVars>>

\* the collection after the mark_as_* method is called on the object
Marked(op, self, archive_message_id, accepted) ==
    CASE op = "mark_as_deleted" -> mark_as_deleted(self, accepted)
      [] op = "mark_as_non_audio" -> mark_as_non_audio(self, accepted)
      [] op = "mark_as_archived" ->
            IF archive_message_id = None THEN audios
            ELSE mark_as_archived(self, archive_message_id, accepted)

\* the caller calls one of the mark_as_* methods on the object it holds
MarkCall(c) ==
    /\ held[c] # <<>> /\ held[c][1].called = "None"
    /\ \E op \in MarkOps, archive_message_id \in {None, ArchiveMessageId} :
          \E after \in {Marked(op, held[c][1].audio, archive_message_id, accepted) :
                           accepted \in BOOLEAN} :
              /\ audios' = after
              /\ RevisionsLeft
              /\ held' = [held EXCEPT ![c] = <<[@[1] EXCEPT !.called = op,
                                                           !.ret = after # audios]>>]
              /\ audioCall' = [op |-> op, ret |-> after # audios]
    /\ UNCHANGED <<audioEdges, hashtagVars, thumbVars, docVars, playlistVars, hitVars>>

\* the caller lets go of the object
MarkDone(c) ==
    /\ held[c] # <<>> /\ held[c][1].called # "None"
    /\ held' = [held EXCEPT ![c] = <<>>]
    /\ UNCHANGED <<audios, audioEdges, audioCall,
                   hashtagVars, thumbVars, docVars, playlistVars, hitVars>>

MarkAudio(c) == MarkGet(c) \/ MarkCall(c) \/ MarkDone(c)

NextMarkAudio == \E c \in Callers : MarkAudio(c)

SpecMarkAudio == InitMarkAudio /\ [][NextMarkAudio]_vars

----------------------------------------------------------------------------
(* The chosen inline result handler: on_chosen_inline_query *)

InlineQueryIds == {"q"}
HitDownloadUrls == {"a", "b"}

\* chosen_inline_result.inline_message_id: None, empty or an id
InlineMessageIds == {<<>>, <<"">>, <<"m">>}

\* chat_type = ChatType(int(chat_type_value))
ChatTypeValues == {"2", "3"}

ChatTypeOf(chat_type_value) ==
    CASE chat_type_value = "2" -> "BOT"
      [] chat_type_value = "3" -> "GROUP"

\* result_id.split("->"): the id the bot gave the result has four parts
ResultIds == InlineQueryIds \X HitDownloadUrls \X ChatTypeValues \X {"0"}

\* chosen_inline_result.query, and what the re.search for a #command at its
\* start gives: the command, or no match (<<>>)
ChosenQueries == {"song", "#download_history", "#no_button 1"}

Reg(query) ==
    CASE query = "#download_history" -> <<"download_history">>
      [] query = "#no_button 1" -> <<"no_button">>
      [] OTHER -> <<>>

\* InlineButton.find_button_by_type_value
Buttons == {"download_history"}

\* AudioInlineMessage.parse_key, for the one bot and the one user
AudioInlineMessageKey(inline_query_id, hit_download_url) ==
    <<inline_query_id, hit_download_url>>

PutInlineMessage(messages, key, inline_message_id) ==
    [k \in DOMAIN messages \cup {key} |->
        IF k = key THEN inline_message_id ELSE messages[k]]

\* get_or_create_audio_inline_message: the stored document, else a new one
\* with the inline message id unless the insertion fails
get_or_create_audio_inline_message(key, inline_message_id, inserted) ==
    IF key \in DOMAIN inlineMessages \/ ~inserted THEN inlineMessages
    ELSE PutInlineMessage(inlineMessages, key, inline_message_id)

\* set_audio_inline_message_id: the collection after the call and what the
\* call returns
set_audio_inline_message_id(inline_query_id, hit_download_url, inline_message_id, inserted, updated) ==
    LET key == AudioInlineMessageKey(inline_query_id, hit_download_url)
        got == get_or_create_audio_inline_message(key, inline_message_id, inserted)
    IN  IF key \notin DOMAIN got
        THEN [messages |-> got, updated |-> FALSE]
        ELSE IF inline_message_id = <<>> \/ inline_message_id = <<"">>
        THEN [messages |-> got, updated |-> FALSE]
        ELSE IF updated
        THEN [messages |-> PutInlineMessage(got, key, inline_message_id),
              updated |-> TRUE]
        ELSE [messages |-> got, updated |-> FALSE]

\* "if chat_type == ChatType.BOT" before set_audio_inline_message_id
StoresInlineMessage_Always(chat_type) == TRUE

StoresInlineMessage(chat_type) == chat_type = "BOT"

\* self.db.graph.create_interaction: the vertex is created, or None is given
Interaction(hit_download_url, type, chat_type) ==
    [hit_download_url |-> hit_download_url, type |-> type, chat_type |-> chat_type]

create_interaction(hit_download_url, type, chat_type, created) ==
    IF created
    THEN Append(interactions, Interaction(hit_download_url, type, chat_type))
    ELSE interactions

\* nothing is stored or requested
NothingChosen(raised) ==
    [messages |-> inlineMessages, interactions |-> interactions,
     requested |-> <<>>, stores |-> FALSE, updated |-> FALSE, raised |-> raised]

\* the else branch of on_chosen_inline_query: the result of a plain search
ChosenSearchResult(result_id, inline_message_id, inserted, updated, created) ==
    LET inline_query_id == result_id[1]
        hit_download_url == result_id[2]
        chat_type == ChatTypeOf(result_id[3])
        set == IF StoresInlineMessage(chat_type)
               THEN set_audio_inline_message_id(inline_query_id, hit_download_url,
                                                inline_message_id, inserted, updated)
               ELSE [messages |-> inlineMessages, updated |-> FALSE]
    IN  [messages |-> set.messages,
         interactions |-> create_interaction(hit_download_url, "DOWNLOAD",
                                             chat_type, created),
         requested |-> <<Interaction(hit_download_url, "DOWNLOAD", chat_type)>>,
         stores |-> StoresInlineMessage(chat_type),
         updated |-> set.updated, raised |-> "None"]

\* DownloadHistoryInlineButton.on_chosen_inline_query: in the bot chat it
\* calls set_audio_inline_message_id with four arguments, one short of the
\* five the method takes, which raises TypeError; exception_handler logs it
ChosenDownloadHistory(result_id, created) ==
    LET hit_download_url == result_id[2]
        chat_type == ChatTypeOf(result_id[3])
    IN  IF chat_type = "BOT" THEN NothingChosen("TypeError")
        ELSE [messages |-> inlineMessages,
              interactions |-> create_interaction(hit_download_url, "SHARE",
                                                  chat_type, created),
              requested |-> <<Interaction(hit_download_url, "SHARE", chat_type)>>,
              stores |-> FALSE, updated |-> FALSE, raised |-> "None"]

\* what a call of on_chosen_inline_query can do
ChosenResults(query, result_id, inline_message_id) ==
    IF Reg(query) = <<>>
    THEN {ChosenSearchResult(result_id, inline_message_id, inserted, updated, created) :
             inserted, updated, created \in BOOLEAN}
    ELSE IF Reg(query)[1] \notin Buttons THEN {NothingChosen("None")}
    ELSE {ChosenDownloadHistory(result_id, created) : created \in BOOLEAN}

InitChosenInlineQuery ==
    /\ hitAudios = [hit \in HitKeys |-> {}]
    /\ queries = <<>> /\ hitVertices = <<>> /\ queryEdges = {}
    /\ inlineMessages = <<>> /\ interactions = <<>>
    /\ hitCall = NoCall
    /\ HashtagsOff
    /\ ThumbnailsOff
    /\ DocsOff
    /\ PlaylistsOff
    /\ AudiosOff

OnChosenInlineQuery ==
    /\ \E query \in ChosenQueries, result_id \in ResultIds,
          inline_message_id \in InlineMessageIds :
          \E r \in ChosenResults(query, result_id, inline_message_id) :
              /\ Len(r.interactions) <= MaxInteractions
              /\ inlineMessages' = r.messages
              /\ interactions' = r.interactions
              /\ hitCall' = [op |-> "on_chosen_inline_query",
                             command |-> Reg(query),
                             result_id |-> result_id,
                             inline_message_id |-> inline_message_id,
                             requested |-> r.requested,
                             created |-> r.interactions # interactions,
                             stores |-> r.stores,
                             stored |-> r.messages # inlineMessages,
                             updated |-> r.updated,
                             raised |-> r.raised]
    /\ UNCHANGED <<hitAudios, queries, hitVertices, queryEdges>>
    /\ UNCHANGED <<hashtagVars, thumbVars, docVars, playlistVars, audioVars>>

NextChosenInlineQuery == OnChosenInlineQuery

SpecChosenInlineQuery == InitChosenInlineQuery /\ [][NextChosenInlineQuery]_vars

----------------------------------------------------------------------------
(* Properties of _update_connected_hashtags *)

\* the edge keys computed from audio.find_hashtags()
DesiredEdges == NewEdges(found.hashtags)

HRunReturned == hrun[1].pc = "returned" /\ ~found.raised

C2_OnlyTheDifference ==
    hrun[1].pc # "idle" /\ ~found.raised =>
        /\ hrun[1].deleted \subseteq (edges0 \ DesiredEdges)
        /\ hrun[1].created \subseteq (DesiredEdges \ edges0)
        /\ (edges0 \cap DesiredEdges) \subseteq hasHashtagEdges
        /\ vertices0 \subseteq hashtagVertices

\* a finished run with an edge deleted, an edge created, an edge kept and a
\* hashtag the audio no longer refers to
C2_Witness ==
    /\ HRunReturned
    /\ hrun[1].deleted # {} /\ hrun[1].created # {}
    /\ edges0 \cap DesiredEdges # {}
    /\ CurrentVertices(edges0) \ NewVertices(found.hashtags) # {}
    /\ CurrentVertices(edges0) \ NewVertices(found.hashtags) \subseteq hashtagVertices

----------------------------------------------------------------------------
(* Properties of update_connected_thumbnails *)

\* C3: once the call is over, no edge deletion or creation having failed, the
\* thumbnails the audio has Has edges to are exactly the given ones, for any
\* set of thumbnails connected before, a non-empty one included.
C3_AsClaimed ==
    (trun.pc \in {"returned", "raised"} /\ ~trun.edge_failed)
        => thumbEdges = thumbnails

----------------------------------------------------------------------------
(* Properties of the document mapper *)

UpdateWrote ==
    lastCall.op = "update" /\ lastCall.written /\ docClass = "BaseCollectionDocument"

\* C4: the document BaseCollectionDocument.update(old_doc, doc) hands to the
\* database has the id, key and rev of old_doc, the created_at of old_doc and
\* old_doc's value of every field of _extra_do_not_update_fields; its other
\* field has doc's value (an Enum member as its value).
C4_UpdateKeepsOldFields ==
    UpdateWrote =>
        /\ lastCall.payload._id = lastCall.old.id
        /\ lastCall.payload._key = lastCall.old.key
        /\ lastCall.payload._rev = lastCall.old.rev
        /\ lastCall.payload.created_at = lastCall.old.created_at
        /\ lastCall.payload.meta = lastCall.old.meta
        /\ lastCall.payload.kind = EnumValue(lastCall.kind_before)

\* an accepted update whose doc carried another id, key, rev, created_at and
\* extra field than old_doc
C4_Witness ==
    UpdateWrote /\ lastCall.carried_other /\ lastCall.successful

\* C5: create(None) returns (None, False) without a call to the database; for
\* a document, an accepted insert gives (doc, True) with doc's id, key and rev
\* those of the returned metadata, a refused one gives (doc, False) with
\* doc's id, key and rev as they were and the collection unchanged; no
\* exception leaves create.
C5_CreateResult ==
    lastCall.op = "create" =>
        /\ ~lastCall.raised
        /\ lastCall.successful = lastCall.inserted
        /\ lastCall.arg = <<>> =>
              /\ lastCall.returned = <<>> /\ ~lastCall.successful
              /\ ~lastCall.db_called /\ ~lastCall.store_changed
        /\ (lastCall.arg # <<>> /\ lastCall.inserted) =>
              /\ lastCall.returned[1].id = lastCall.metadata[1]._id
              /\ lastCall.returned[1].key = lastCall.metadata[1]._key
              /\ lastCall.returned[1].rev = lastCall.metadata[1]._rev
              /\ lastCall.returned[1].rev # None /\ lastCall.returned[1].id # None
              /\ lastCall.returned[1].key \in DOMAIN store
        /\ (lastCall.arg # <<>> /\ ~lastCall.inserted) =>
              /\ \A f \in MetadataFields : lastCall.returned[1][f] = lastCall.arg[1][f]
              /\ ~lastCall.store_changed

\* a create refused for a key that is taken, after an accepted one
C5_Witness ==
    /\ lastCall.op = "create" /\ lastCall.arg # <<>> /\ ~lastCall.inserted
    /\ lastCall.arg[1].key \in DOMAIN store

\* C6: an update whose old_doc no longer has the stored revision fails and
\* leaves the collection as it was, so no two successful updates were made
\* from reads of one revision.
C6_OneUpdatePerRevision ==
    /\ (lastCall.op = "update" /\ lastCall.written /\ lastCall.stale) =>
            (~lastCall.successful /\ ~lastCall.store_changed)
    /\ \A r \in DOMAIN wins : wins[r] <= 1

\* two clients hold reads of one revision; an update from it has succeeded
\* and the last call, an update from it too, has failed
C6_Witness ==
    /\ lastCall.op = "update" /\ lastCall.written /\ lastCall.stale
    /\ ~lastCall.successful
    /\ lastCall.old.rev \in DOMAIN wins /\ wins[lastCall.old.rev] = 1
    /\ \E c \in Clients : oldDoc[c] # <<>> /\ oldDoc[c][1].rev = lastCall.old.rev

----------------------------------------------------------------------------
(* Properties of the playlist methods *)

FavoritePlaylists(user) ==
    {key \in ConnectedPlaylists(user) : playlists[key].is_favorite}

\* C7, as claimed: after any sequence of create_playlist,
\* get_or_create_playlist, create_favorite_playlist,
\* get_or_create_favorite_playlist and remove_playlist calls, each user is
\* connected by Has edges to at most one playlist with is_favorite = true.
C7_AsClaimed ==
    \A user \in Users : Cardinality(FavoritePlaylists(user)) <= 1

IsPlaylistQuery ==
    playlistCall.op \in {"get_user_playlist_by_title", "get_user_playlist_by_key"}

\* C8, as claimed: get_user_playlist_by_title and get_user_playlist_by_key
\* called with filter_out_soft_deleted = True return a matching playlist of
\* the user exactly when one that is not soft-deleted exists, and never a
\* soft-deleted one; called with False they return a matching playlist
\* exactly when one exists, soft-deleted or not.
C8_AsClaimed ==
    IsPlaylistQuery =>
        /\ playlistCall.found => playlistCall.found_matching
        /\ playlistCall.filter_out =>
              /\ playlistCall.found <=> playlistCall.any_live
              /\ ~playlistCall.found_soft_deleted
        /\ ~playlistCall.filter_out =>
              (playlistCall.found <=>
                  (playlistCall.any_live \/ playlistCall.any_soft_deleted))

AddedAudio ==
    playlistCall.op = "add_audio_to_playlist" /\ playlistCall.looked_up

\* C9: add_audio_to_playlist returns (True, False) and creates nothing when a
\* Has edge from the playlist to the audio already exists; otherwise it
\* returns (True, True) exactly when it created that edge; and after every
\* successful call exactly one Has edge from the playlist to the audio exists.
C9_AddAudioToPlaylist ==
    AddedAudio =>
        /\ playlistCall.on_playlist =>
              playlistCall.ret = <<TRUE, FALSE>> /\ ~playlistCall.changed
        /\ ~playlistCall.on_playlist =>
              (playlistCall.ret = <<TRUE, TRUE>> <=> playlistCall.has_created)
        /\ playlistCall.ret[1] => playlistCall.has_edges = 1

\* a call for an audio that an earlier call has put on the playlist
C9_Witness ==
    /\ AddedAudio
    /\ playlistCall.on_playlist
    /\ playlistCall.ret = <<TRUE, FALSE>>
    /\ playlistCall.has_edges = 1

RemovedAudio ==
    playlistCall.op = "remove_audio_from_playlist" /\ playlistCall.looked_up

\* C10: remove_audio_from_playlist returns (True, False) and changes nothing
\* when no Has edge from the playlist to the audio exists; when one exists it
\* records a Had edge only after deleting the Has edge, returns (True, True)
\* only when the Has edge is deleted and the Had edge exists, and raises
\* EdgeDeletionFailed, creating no Had edge, exactly when the Has edge could
\* not be deleted.
C10_RemoveAudioFromPlaylist ==
    RemovedAudio =>
        /\ ~playlistCall.on_playlist =>
              /\ playlistCall.ret = <<TRUE, FALSE>>
              /\ playlistCall.raised = "None"
              /\ ~playlistCall.changed
        /\ playlistCall.had_created => playlistCall.has_deleted
        /\ playlistCall.ret = <<TRUE, TRUE>> =>
              /\ playlistCall.on_playlist
              /\ playlistCall.has_deleted /\ playlistCall.has_edges = 0
              /\ playlistCall.had_after
        /\ playlistCall.raised = "EdgeDeletionFailed" <=>
              (playlistCall.on_playlist /\ ~playlistCall.has_deleted)
        /\ playlistCall.raised = "EdgeDeletionFailed" =>
              ~playlistCall.had_created /\ ~playlistCall.changed

\* a removal that deleted the Has edge and recorded the Had edge
C10_Witness ==
    /\ RemovedAudio
    /\ playlistCall.ret = <<TRUE, TRUE>>
    /\ playlistCall.has_deleted
    /\ playlistCall.had_created

RemovePlaylistCalled == playlistCall.op = "remove_playlist"

\* C11: remove_playlist raises PlaylistDoesNotExists exactly when no playlist
\* has the given key, and then changes nothing; when no Has edge from the
\* user to the playlist exists it returns False and leaves the playlists and
\* all edges unchanged; it returns True only when the Had edge from the user
\* to the playlist exists, the Has edge is deleted and the playlist is
\* soft-deleted with the given deleted_at.
C11_RemovePlaylist ==
    RemovePlaylistCalled =>
        /\ playlistCall.raised = "PlaylistDoesNotExists" <=> ~playlistCall.existed
        /\ ~playlistCall.owned => ~playlistCall.ret /\ ~playlistCall.changed
        /\ playlistCall.ret => playlistCall.owned /\ playlistCall.removed

\* a removal by the owner that succeeded, while another playlist is stored
C11_Witness ==
    /\ RemovePlaylistCalled
    /\ playlistCall.ret /\ playlistCall.owned /\ playlistCall.removed
    /\ Len(playlists) = 2

----------------------------------------------------------------------------
(* Properties of the audio methods *)

\* the stored audio of the message
StoredAudio == AudioGet(AudioKey)[1]

UpdatedStoredAudio ==
    audioCall.op = "update_or_create_audio" /\ audioCall.before # <<>>

\* C12, as claimed: when update_or_create_audio is called for a message whose
\* audio is stored and the message is empty, and the database has accepted
\* the update the call made, the stored audio has is_deleted = true and a
\* deleted_at.
C12_AsClaimed ==
    (UpdatedStoredAudio /\ audioCall.empty /\ audioCall.written) =>
        (StoredAudio.is_deleted /\ StoredAudio.deleted_at # None)

\* C13: when update_or_create_audio is called for a stored audio and a
\* message without a valid audio file, no edge of the audio is changed and no
\* field of the stored audio other than audio_type and the revision the
\* database assigns is changed; audio_type is NON_AUDIO when the database has
\* accepted the update.
C13_MarkAsNonAudioFrame ==
    (UpdatedStoredAudio /\ ~audioCall.valid) =>
        /\ ~audioCall.edges_changed
        /\ \A f \in DOMAIN StoredAudio \ {"audio_type", "rev"} :
               StoredAudio[f] = audioCall.before[1][f]
        /\ audioCall.written => StoredAudio.audio_type = "NON_AUDIO"
        /\ ~audioCall.written => StoredAudio = audioCall.before[1]

\* an audio file with a hashtag edge and a FileRef edge has been marked
C13_Witness ==
    /\ UpdatedStoredAudio /\ ~audioCall.valid /\ audioCall.written
    /\ audioCall.before[1].audio_type = "AUDIO_FILE"
    /\ StoredAudio.audio_type = "NON_AUDIO"
    /\ HashtagEdges(audioEdges) # {} /\ FileRefEdges(audioEdges) # {}

\* C14: create_audio returns None and inserts nothing when the message is
\* None or has no valid audio file; it returns an Audio only when the vertex
\* was inserted; and it raises EdgeCreationFailed exactly when the creation
\* of an edge of the new audio yielded None.
C14_CreateAudio ==
    audioCall.op = "create_audio" =>
        /\ ~audioCall.valid =>
              /\ ~audioCall.returned /\ ~audioCall.inserted
              /\ audioCall.raised = "None"
        /\ audioCall.returned => audioCall.inserted
        /\ audioCall.yielded_none <=> audioCall.raised = "EdgeCreationFailed"

\* the vertex was inserted and then the creation of an edge yielded None
C14_Witness ==
    /\ audioCall.op = "create_audio"
    /\ audioCall.inserted /\ audioCall.yielded_none
    /\ audioCall.raised = "EdgeCreationFailed"
    /\ ~audioCall.returned

GotOrCreatedAudio == audioCall.op = "get_or_create_audio"

----------------------------------------------------------------------------
(* Properties of get_audio_from_hit *)

\* the audios linked with the hit of the last get_audio_from_hit call
LinkedWithHit == IF hitCall.hit = <<>> THEN {} ELSE hitAudios[hitCall.hit[1]]

\* C16: get_audio_from_hit raises ValueError when the hit has more than one
\* linked Audio vertex, returns that Audio when exactly one is linked, and
\* returns None when none is linked or when hit is None.
C16_AsClaimed ==
    hitCall.op = "get_audio_from_hit" =>
        /\ Cardinality(LinkedWithHit) > 1 => hitCall.raised = "ValueError"
        /\ Cardinality(LinkedWithHit) = 1 =>
              /\ hitCall.raised = "None"
              /\ hitCall.ret # <<>> /\ LinkedWithHit = {hitCall.ret[1]}
        /\ (LinkedWithHit = {} \/ hitCall.hit = <<>>) =>
              hitCall.raised = "None" /\ hitCall.ret = <<>>

----------------------------------------------------------------------------
(* Properties of create_query *)

CreatedQuery == hitCall.op = "create_query" /\ hitCall.inserted

\* the hit type the call is to give, by its inline arguments
ClaimedHitType ==
    IF hitCall.inline_query_type = "None" \/ ~hitCall.telegram_inline_query
    THEN "SEARCH"
    ELSE IF hitCall.inline_query_type = "SEARCH" THEN "INLINE_SEARCH"
    ELSE IF hitCall.inline_query_type = "COMMAND" THEN "INLINE_COMMAND"
    ELSE "UNKNOWN"

\* the audios at the positions where the audio and its metadata are not None
RECURSIVE AudiosWithMetadata(_, _)
AudiosWithMetadata(audio_list, search_metadata_list) ==
    IF audio_list = <<>> \/ search_metadata_list = <<>> THEN <<>>
    ELSE (IF Head(audio_list) # <<>> /\ Head(search_metadata_list) # <<>>
          THEN <<Head(audio_list)[1]>> ELSE <<>>)
            \o AudiosWithMetadata(Tail(audio_list), Tail(search_metadata_list))

\* C17: every hit create_query creates has the type SEARCH when the query is
\* not inline, INLINE_SEARCH, INLINE_COMMAND or UNKNOWN by the inline query
\* type when it is, and the hits are returned in the order of the audios
\* list, one per position whose audio and search metadata are not None.
C17_CreateQuery ==
    CreatedQuery =>
        /\ \A i \in DOMAIN hitVertices : hitVertices[i].hit_type = ClaimedHitType
        /\ hitCall.ret # <<>> =>
              LET hits == hitCall.ret[1]
                  expected == AudiosWithMetadata(hitCall.audios,
                                                 hitCall.search_metadata_list)
              IN  /\ Len(hits) = Len(expected)
                  /\ \A j \in DOMAIN hits :
                        /\ hits[j].audio = expected[j]
                        /\ hits[j].hit_type = ClaimedHitType
                        /\ \E i \in DOMAIN hitVertices : hitVertices[i] = hits[j]

C17_Witness ==
    /\ CreatedQuery /\ hitCall.ret # <<>>
    /\ hitCall.inline_query_type = "COMMAND" /\ hitCall.telegram_inline_query
    /\ hitCall.audios = <<<<2>>, <<1>>>>
    /\ Len(hitCall.ret[1]) = 2
    /\ hitCall.ret[1][1].audio = 2 /\ hitCall.ret[1][2].audio = 1
    /\ hitCall.ret[1][1].hit_type = "INLINE_COMMAND"

----------------------------------------------------------------------------
(* Properties of on_inline_query *)

\* the call answered with results after the query gave it hits
AnsweredWithHits ==
    /\ hitCall.op = "on_inline_query" /\ hitCall.answer = "results"
    /\ hitCall.db_hits # <<>> /\ hitCall.db_hits[1] # <<>>

\* C18: every returned inline result gets the add-to-playlist button with
\* the download url of the hit created for the audio document of that
\* result, also when documents were skipped for lacking a cached file or a
\* title.
C18_AsClaimed ==
    AnsweredWithHits =>
        \A i \in DOMAIN hitCall.results :
            LET res == hitCall.results[i]
            IN  /\ res.reply_markup # <<>>
                /\ \E j \in DOMAIN hitVertices :
                      /\ hitVertices[j].audio = res.id
                      /\ hitVertices[j].download_url = res.reply_markup[1]

----------------------------------------------------------------------------
(* Properties of the mark_as_* methods under concurrent callers *)

\* the stored audio shows the change the method makes
ShowsChange(op, audio) ==
    CASE op = "mark_as_deleted" -> audio.is_deleted /\ audio.deleted_at = Now
      [] op = "mark_as_non_audio" -> audio.audio_type = "NON_AUDIO"
      [] op = "mark_as_archived" ->
            audio.type = "ARCHIVED" /\ audio.archive_message_id = ArchiveMessageId

\* both callers got the same stored audio, and each has called a mark_as_*
\* method on its copy with success
BothMarked ==
    /\ \A c \in Callers : held[c] # <<>> /\ held[c][1].called # "None" /\ held[c][1].ret
    /\ held[1][1].audio = held[2][1].audio

\* C19: mark_as_deleted, mark_as_archived and mark_as_non_audio calls made
\* on copies of the same stored audio do not lose each other's changes: when
\* both calls have returned success, in any interleaving, the stored audio
\* shows both changes.
C19_AsClaimed ==
    BothMarked =>
        \A c \in Callers : ShowsChange(held[c][1].called, AudioGet(AudioKey)[1])

----------------------------------------------------------------------------
(* Properties of two _update_connected_hashtags runs on one audio *)

BothRunsOver == \A p \in Runs : hrun[p].pc \in {"returned", "raised"}

NothingRefused ==
    \A p \in Runs : ~hrun[p].vertex_failed /\ ~hrun[p].delete_refused

----------------------------------------------------------------------------
(* Properties of on_chosen_inline_query *)

\* the call was for a result of a plain search
ChosenPlainSearch == hitCall.op = "on_chosen_inline_query" /\ hitCall.command = <<>>

====
